---- MODULE Spec2Model ----
(***************************************************************************)
(* A model of the QuickDraw-Doodler sequence VAE: the autoregressive       *)
(* sampling loop and forward pass of models/vae.py, the stroke dataset and *)
(* batch collation of utils/process_data.py, the pen-state assembly of     *)
(* src/data.py, the reconstruction loss and mixture coefficients of        *)
(* models/rnnv1.py, the KL term and the anneal schedule of train_rnn, the  *)
(* construction of the dataset from downloaded drawings, random_augment,  *)
(* and the epochs of train_rnn with their checkpoints and analyses.       *)
(*                                                                         *)
(* Real-valued tensors are carried as small integers: the properties       *)
(* checked here are about rows, shapes, indices, masks and sums, none      *)
(* about the value of a density.                                           *)
(***************************************************************************)
EXTENDS Integers, Sequences, FiniteSets, TLC

VARIABLES
    \* DoodleGenRNN.sample_sketch (models/vae.py)
    pc,          \* position in sample_sketch: "idle", "loop", "cat", "done", "error"
    seq_len,     \* the caller's max step count
    z,           \* latent vector of the call
    input_t,     \* decoder input of the next step: <<point, z>>
    sketch,      \* list of sampled points
    it,          \* iterations of `for _ in range(seq_len)` started so far
    result,      \* the returned (L, 6) tensor
    \* DoodleGenRNN.forward (models/vae.py), tensors by their shapes
    fpc,                    \* "idle", "start", "encoded", "sampled", "decoded", "done"
    x_shape,                \* the padded batch x: <<B, L, in_size>>
    lengths_shape,          \* the lengths tensor passed as seq_len: <<B>>
    inputs_shape,           \* teacher-forcing inputs: None or <<B, T, in_size>>
    num_gmm_modes,
    latent_size,
    mu_shape,
    logvar_shape,
    z_shape,
    decoder_output_shape,
    gmm_outputs_shape,
    encoded_mu,             \* values occurring in the mu that encode() returns
    encoded_logvar,         \* values occurring in the logvar that encode() returns
    mu_values,              \* values occurring in forward's `mu`
    logvar_values,          \* values occurring in forward's `logvar`
    reparam_logvar,         \* values occurring in the logvar given to reparameterize
    \* SequentialStrokeData, collate_sketches (utils/process_data.py) and the
    \* teacher-forcing slices and mask of train/validate (models/vae.py)
    dpc,                    \* "idle", "loading", "collated", "masked", "error"
    max_len,                \* config['max_seq_len']: of the dataset and of CollateFn
    random_scale_factor,    \* in percent
    augment_stroke_prob,    \* in percent
    batch,                  \* list of (stroke_6, length) returned by __getitem__
    padded_samples,         \* (batch, max_len, 6)
    lengths,                \* (batch,)
    decoder_inputs,         \* Xbatch[:, :-1, :]
    decoder_target,         \* Xbatch[:, 1:, :]
    mask,                   \* (batch, max_len - 1)
    \* reconstruction_loss (models/rnnv1.py)
    lpc,            \* "idle", "start", "split", "stroke", "pen", "done"
    target,         \* (B, T, 6) ground-truth rows
    loss_mask,      \* the mask argument: (B, T) booleans
    stroke_nll,     \* (B, T): -(0.5 log(spatial_prob) + 0.5 log(temporal_prob))
    pen_nll,        \* (B, T, 3): -log_softmax(z_pen_logits), one entry per class
    pen_state,      \* (B, T) class indices handed to the cross-entropy
    L_s,            \* (B, T)
    L_p,            \* (B, T)
    rec_loss,       \* the returned scalar as a fraction [num, den]
    \* kl_divergence_loss and the KL term of a training step (models/vae.py,
    \* models/rnnv1.py); values in thousandths
    kpc,            \* "idle", "start", "summed", "clamped", "returned", "added"
    kl_module,      \* "vae" or "rnnv1": whose kl_divergence_loss and train()
    mu,             \* (B, Z)
    logvar,         \* (B, Z)
    anneal_factor,  \* in thousandths
    tol,            \* kl_tolerance, in thousandths
    kl,             \* the local `kl`, in thousandths
    kl_returned,    \* value kl_divergence_loss returns: a fraction, in millionths
    kl_div_loss,    \* the KL term added to the total loss: a fraction, in millionths
    \* get_mixture_coeff (models/rnnv1.py) on the last axis of one output row
    mpc,            \* "idle", "start", "split", "returned"
    num_mdn_modes,
    output,         \* the raw row, (8 * num_mdn_modes) + 3 wide
    split,          \* the nine raw slices, by the names of the source
    coeff,          \* the ten returned values, by the names of the source
    \* the train/val loop of train_rnn (models/vae.py, models/rnnv1.py);
    \* factors, rates and weights in thousandths
    tpc,            \* "idle", "epoch_start", "training", "done"
    tr_module,      \* "vae" or "rnnv1"
    num_epochs,
    num_batches,    \* len(train_loader)
    kl_weight_start,
    kl_decay_rate,
    kl_weight,
    epoch,
    global_step,
    weighted_anneal_factor,
    train_batch,    \* batches of the running epoch already trained on
    anneal_log,     \* per training batch so far: [epoch, step, factor] it was given
    \* download_stroke_data (src/data.py) and the construction of a
    \* SequentialStrokeData from its output (utils/process_data.py)
    bpc,            \* "idle", "download", "preprocess", "sorted", "labelled",
                    \* "normalized", "error"
    drawing_sizes,  \* per accepted sample: the number of points of each stroke
    strokes,        \* the `strokes` argument: one (x, y, t, p) array per drawing
    labels,         \* the `labels` argument
    ds_max_len,     \* self.max_len
    stroke_i,       \* drawings the loop of preprocess has been through
    raw_data,
    raw_seq_len,    \* the list `seq_len` of preprocess
    kept_from,      \* per entry of raw_data: position in `strokes` it came from
    sort_idx,       \* 0-based, as np.argsort returns it
    ds_strokes,     \* self.strokes
    ds_labels,      \* self.labels
    \* random_augment (utils/process_data.py)
    apc,            \* "idle", "loop", "returned"
    aug_data,       \* the `data` argument
    aug_prob,       \* the `prob` argument, in percent
    aug_i,          \* rows the loop has been through, the first included
    prev_stroke,    \* column 3 of the row kept last
    aug_count,      \* the local `count`
    aug_rows,       \* the list `augmented`
    aug_log,        \* per row of the loop: [p_current, p_prev, merged]
    aug_result,     \* the returned tensor
    \* train_rnn with train, validate and the distribution analysis
    \* (models/vae.py)
    rpc,            \* position in train_rnn, see NextRun
    run_epochs,     \* rnn_config['num_epochs']
    n_train,        \* len(train_loader)
    n_val,          \* len(val_loader)
    grad_clip,      \* None or <<norm>>
    run_max_seq_len, \* rnn_config['max_seq_len']
    run_epoch,
    batch_idx,
    decoder_out,    \* the decoder output computed last: <<kind, epoch, index, step>>
    mdn_coeff,      \* the output whose mixture coefficients rnn.mdn holds
    mdn_calls,      \* the last two calls of rnn.mdn: [op, arg, on]
    grads,          \* "none", "zeroed", "fresh", "clipped"
    update_log,     \* calls of the parameter update of the running batch, in order
    optim_steps,
    sched_steps,
    metrics_train,  \* metrics['train']['total_loss']: the epoch of each entry
    metrics_val,    \* metrics['val']['total_loss']: the epoch of each entry
    checkpoints,    \* checkpoints written: [epoch, train_loss, val_loss]
    analysed,       \* epochs whose distribution analysis has run
    seq_pt_count,
    sample_count,
    animated,       \* calls of animate_strokes in the running analysis
    gen_sketch,     \* the sketch being sampled: per row, whether its pen state is end-of-sequence
    gen_x,          \* lengths of gen_x, gen_y, gen_t: <<nx, ny, nt>>
    gen_done        \* whether gen_x, gen_y, gen_t have been concatenated and cut

sampleVars == <<pc, seq_len, z, input_t, sketch, it, result>>

fwdVars == <<fpc, x_shape, lengths_shape, inputs_shape, num_gmm_modes, latent_size,
             mu_shape, logvar_shape, z_shape, decoder_output_shape, gmm_outputs_shape,
             encoded_mu, encoded_logvar, mu_values, logvar_values, reparam_logvar>>

dataVars == <<dpc, max_len, random_scale_factor, augment_stroke_prob, batch,
              padded_samples, lengths, decoder_inputs, decoder_target, mask>>

lossVars == <<lpc, target, loss_mask, stroke_nll, pen_nll, pen_state, L_s, L_p, rec_loss>>

klVars == <<kpc, kl_module, mu, logvar, anneal_factor, tol, kl, kl_returned, kl_div_loss>>

mixVars == <<mpc, num_mdn_modes, output, split, coeff>>

trainVars == <<tpc, tr_module, num_epochs, num_batches, kl_weight_start, kl_decay_rate,
               kl_weight, epoch, global_step, weighted_anneal_factor, train_batch,
               anneal_log>>

buildVars == <<bpc, drawing_sizes, strokes, labels, ds_max_len, stroke_i, raw_data,
               raw_seq_len, kept_from, sort_idx, ds_strokes, ds_labels>>

augVars == <<apc, aug_data, aug_prob, aug_i, prev_stroke, aug_count, aug_rows,
             aug_log, aug_result>>

runVars == <<rpc, run_epochs, n_train, n_val, grad_clip, run_max_seq_len, run_epoch,
             batch_idx, decoder_out, mdn_coeff, mdn_calls, grads, update_log,
             optim_steps, sched_steps, metrics_train, metrics_val,
             checkpoints, analysed, seq_pt_count, sample_count, animated,
             gen_sketch, gen_x, gen_done>>

vars == <<sampleVars, fwdVars, dataVars, lossVars, klVars, mixVars, trainVars,
          buildVars, augVars, runVars>>

\* what the steps of one component leave alone
notSample == <<fwdVars, dataVars, lossVars, klVars, mixVars, trainVars,
    buildVars, augVars, runVars>>
notForward == <<sampleVars, dataVars, lossVars, klVars, mixVars, trainVars,
    buildVars, augVars, runVars>>
notData == <<sampleVars, fwdVars, lossVars, klVars, mixVars, trainVars,
    buildVars, augVars, runVars>>
notLoss == <<sampleVars, fwdVars, dataVars, klVars, mixVars, trainVars,
    buildVars, augVars, runVars>>
notKL == <<sampleVars, fwdVars, dataVars, lossVars, mixVars, trainVars,
    buildVars, augVars, runVars>>
notMix == <<sampleVars, fwdVars, dataVars, lossVars, klVars, trainVars,
    buildVars, augVars, runVars>>
notTrain == <<sampleVars, fwdVars, dataVars, lossVars, klVars, mixVars,
    buildVars, augVars, runVars>>
notBuild == <<sampleVars, fwdVars, dataVars, lossVars, klVars, mixVars, trainVars,
    augVars, runVars>>
notAug == <<sampleVars, fwdVars, dataVars, lossVars, klVars, mixVars, trainVars,
    buildVars, runVars>>
notRun == <<sampleVars, fwdVars, dataVars, lossVars, klVars, mixVars, trainVars,
    buildVars, augVars>>

----------------------------------------------------------------------------
(* Bounds of the model *)

MaxSteps == 3
MaxPoints == 3
MaxLen == 4
MaxScale == 2
BatchSize == 2
MaxLossBatch == 2
MaxLossSteps == 2
MaxKLBatch == 2
MaxKLLatent == 1
MaxMdnModes == 2
MaxEpochs == 3
MaxTrainBatches == 3
MaxAnnealStep == 12
MaxBatch == 4
MaxPadLen == 5
MaxModes == 3
MaxLatent == 8
EncHidden == 2
DecHidden == 3

----------------------------------------------------------------------------
(* Helpers *)

\* the three pen-state flags of a stroke-6 row (columns 3..5 of the source)
Pen(row) == <<row[4], row[5], row[6]>>

\* torch.argmax of a 3-vector: 0-based index of the first maximal entry
ArgMax(v) ==
    CHOOSE i \in 0..2 :
        /\ \A j \in 0..2 : v[j + 1] <= v[i + 1]
        /\ \A j \in 0..2 : (j < i) => v[j + 1] < v[i + 1]

ZeroRow == <<0, 0, 0, 0, 0, 0>>

OneHots == {<<1, 0, 0>>, <<0, 1, 0>>, <<0, 0, 1>>}

----------------------------------------------------------------------------
(* download_stroke_data (src/data.py): assembly of one accepted drawing *)

RECURSIVE SumSeq(_)
SumSeq(s) == IF s = <<>> THEN 0 ELSE Head(s) + SumSeq(Tail(s))

\* `total_points`: the stroke points plus one pen-up point between strokes
TotalPoints(sizes) == SumSeq(sizes) + (Len(sizes) - 1)

\* the stroke sizes of the drawings fed to the pipeline: at least one stroke,
\* at least one point in each
DrawingSizes ==
    {sizes \in UNION {[1..n -> 1..MaxPoints] : n \in 1..MaxPoints} :
        TotalPoints(sizes) <= MaxPoints}

\* sample['drawing'] for given stroke sizes: a list of strokes, each a list of
\* (x, y, t); the k-th point of the drawing is at (k*k, 0) at time 2k
DrawingData(sizes) ==
    [s \in 1..Len(sizes) |->
        [j \in 1..sizes[s] |->
            LET k == SumSeq(SubSeq(sizes, 1, s - 1)) + j
            IN <<k * k, 0, 2 * k>>]]

\* the loop over the strokes: rows (x, y, t, p) assembled so far
RECURSIVE AssembleStrokes(_, _, _)
AssembleStrokes(drawing_data, stroke_idx, rows) ==
    IF stroke_idx >= Len(drawing_data) THEN rows
    ELSE
        LET stroke == drawing_data[stroke_idx + 1]
            prev == rows[Len(rows)]
            \* pen-up point repeating the last point of the previous stroke
            with_up == IF stroke_idx > 0
                       THEN Append(rows, <<prev[1], prev[2], prev[3] + 1, 2>>)
                       ELSE rows
            p_stroke == [j \in 1..Len(stroke) |->
                            IF j = 1 /\ stroke_idx = 0 THEN 0 ELSE 1]
            points == [j \in 1..Len(stroke) |->
                          <<stroke[j][1], stroke[j][2], stroke[j][3], p_stroke[j]>>]
        IN AssembleStrokes(drawing_data, stroke_idx + 1, with_up \o points)

\* pen state stored on the last point of a drawing
LastPenState == 3

\* an assembly that leaves the pen state of the last point as the loop set it
DownloadNoPenEnd(drawing_data) == AssembleStrokes(drawing_data, 0, <<>>)

\* the (x, y, t, p) array stored for one drawing
DownloadDrawing(drawing_data) ==
    LET rows == AssembleStrokes(drawing_data, 0, <<>>)
    IN [rows EXCEPT ![Len(rows)][4] = LastPenState]

----------------------------------------------------------------------------
(* SequentialStrokeData: construction (utils/process_data.py) *)

\* default of the constructor argument `limit`
Limit == 1000

Max(a, b) == IF a >= b THEN a ELSE b
Min(a, b) == IF a <= b THEN a ELSE b

\* least element of a set of numbers
Min1(S) == CHOOSE m \in S : \A n \in S : m <= n

\* Tensor.clamp_(-limit, limit) on one value
Clamp(v, limit) == Max(0 - limit, Min(limit, v))

\* np.split(stroke_seq, np.where(p == 0)[0] + 1): a piece ends after every row
\* whose p is 0; true at the first and last row of each piece
IsPieceEnd(stroke_seq, i) == i = Len(stroke_seq) \/ stroke_seq[i][4] = 0
IsPieceStart(stroke_seq, i) == i = 1 \/ stroke_seq[i - 1][4] = 0

\* rdp(..., return_mask=True) on every piece: the end points of a piece are
\* always kept, which of the others are kept depends on the geometry
RdpMasks(stroke_seq) ==
    {keep \in SUBSET (1..Len(stroke_seq)) :
        \A i \in 1..Len(stroke_seq) :
            (IsPieceStart(stroke_seq, i) \/ IsPieceEnd(stroke_seq, i)) => i \in keep}

\* rows of s with index in keep, in order
RECURSIVE SelectRows(_, _, _)
SelectRows(s, keep, i) ==
    IF i > Len(s) THEN <<>>
    ELSE (IF i \in keep THEN <<s[i]>> ELSE <<>>) \o SelectRows(s, keep, i + 1)

\* `if len(Ramer_set) <= self.max_len`: the drawing is kept
Keeps(Ramer_set, maxlen) == Len(Ramer_set) <= maxlen

\* to_tensor and the in-place clamp of x, y
ClampRows(Ramer_set, limit) ==
    [i \in 1..Len(Ramer_set) |->
        <<Clamp(Ramer_set[i][1], limit), Clamp(Ramer_set[i][2], limit),
          Ramer_set[i][3], Ramer_set[i][4]>>]

\* compute_deltas_and_normalize on one stroke: (x, y, t, p) to (dx, dy, dt, p),
\* in units in which both scale factors are 1
Deltas(stroke) ==
    [i \in 1..Len(stroke) |->
        IF i = 1 THEN stroke[1]
        ELSE <<stroke[i][1] - stroke[i - 1][1], stroke[i][2] - stroke[i - 1][2],
               stroke[i][3] - stroke[i - 1][3], stroke[i][4]>>]

\* the entries self.strokes can hold after construction with max_len
StoredStrokes(maxlen) ==
    UNION {
        LET stroke_seq == DownloadDrawing(DrawingData(sizes))
        IN {Deltas(ClampRows(SelectRows(stroke_seq, keep, 1), Limit)) :
               keep \in {k \in RdpMasks(stroke_seq) : Keeps(SelectRows(stroke_seq, k, 1), maxlen)}}
        : sizes \in DrawingSizes}

----------------------------------------------------------------------------
(* The state of a component no call of which is in progress *)

\* an optional argument that was not supplied
None == <<>>

IdleSample ==
    /\ pc = "idle"
    /\ seq_len = 0
    /\ z = "z1"
    /\ input_t = <<ZeroRow, "z1">>
    /\ sketch = <<>>
    /\ it = 0
    /\ result = <<>>

IdleForward ==
    /\ fpc = "idle"
    /\ x_shape = <<>>
    /\ lengths_shape = <<>>
    /\ inputs_shape = None
    /\ num_gmm_modes = 0
    /\ latent_size = 0
    /\ mu_shape = <<>>
    /\ logvar_shape = <<>>
    /\ z_shape = <<>>
    /\ decoder_output_shape = <<>>
    /\ gmm_outputs_shape = <<>>
    /\ encoded_mu = {}
    /\ encoded_logvar = {}
    /\ mu_values = {}
    /\ logvar_values = {}
    /\ reparam_logvar = {}

IdleData ==
    /\ dpc = "idle"
    /\ max_len = 0
    /\ random_scale_factor = 0
    /\ augment_stroke_prob = 0
    /\ batch = <<>>
    /\ padded_samples = <<>>
    /\ lengths = <<>>
    /\ decoder_inputs = <<>>
    /\ decoder_target = <<>>
    /\ mask = <<>>

IdleLoss ==
    /\ lpc = "idle"
    /\ target = None
    /\ loss_mask = None
    /\ stroke_nll = None
    /\ pen_nll = None
    /\ pen_state = None
    /\ L_s = None
    /\ L_p = None
    /\ rec_loss = None

IdleKL ==
    /\ kpc = "idle"
    /\ kl_module = None
    /\ mu = None
    /\ logvar = None
    /\ anneal_factor = None
    /\ tol = None
    /\ kl = None
    /\ kl_returned = None
    /\ kl_div_loss = None

IdleMix ==
    /\ mpc = "idle"
    /\ num_mdn_modes = 0
    /\ output = None
    /\ split = None
    /\ coeff = None

IdleTrain ==
    /\ tpc = "idle"
    /\ tr_module = None
    /\ num_epochs = 0
    /\ num_batches = 0
    /\ kl_weight_start = 0
    /\ kl_decay_rate = 0
    /\ kl_weight = 0
    /\ epoch = 0
    /\ global_step = 0
    /\ weighted_anneal_factor = None
    /\ train_batch = 0
    /\ anneal_log = <<>>

IdleBuild ==
    /\ bpc = "idle"
    /\ drawing_sizes = <<>>
    /\ strokes = <<>>
    /\ labels = <<>>
    /\ ds_max_len = 0
    /\ stroke_i = 0
    /\ raw_data = <<>>
    /\ raw_seq_len = <<>>
    /\ kept_from = <<>>
    /\ sort_idx = <<>>
    /\ ds_strokes = <<>>
    /\ ds_labels = <<>>

IdleAug ==
    /\ apc = "idle"
    /\ aug_data = <<>>
    /\ aug_prob = 0
    /\ aug_i = 0
    /\ prev_stroke = 0
    /\ aug_count = 0
    /\ aug_rows = <<>>
    /\ aug_log = <<>>
    /\ aug_result = <<>>

IdleRun ==
    /\ rpc = "idle"
    /\ run_epochs = 0
    /\ n_train = 0
    /\ n_val = 0
    /\ grad_clip = None
    /\ run_max_seq_len = 0
    /\ run_epoch = 0
    /\ batch_idx = 0
    /\ decoder_out = None
    /\ mdn_coeff = None
    /\ mdn_calls = <<>>
    /\ grads = "none"
    /\ update_log = <<>>
    /\ optim_steps = 0
    /\ sched_steps = 0
    /\ metrics_train = <<>>
    /\ metrics_val = <<>>
    /\ checkpoints = <<>>
    /\ analysed = <<>>
    /\ seq_pt_count = 0
    /\ sample_count = 0
    /\ animated = 0
    /\ gen_sketch = <<>>
    /\ gen_x = <<0, 0, 0>>
    /\ gen_done = FALSE

----------------------------------------------------------------------------
(* DoodleGenRNN.forward: encode, reparameterize, decode, mixture head *)

\* in_size of the stroke-6 format
InSize == 6

\* out_features of decoder_to_gmm_fc
GmmWidth(M) == (8 * M) + 3

\* the time length decode() gives the zero inputs it builds when none are
\* supplied: `seq_len.size(0)`, seq_len being the lengths tensor
DefaultInputLen(xs, ls) == ls[1]

\* values the two Linear layers of encode() can put out: any, within and
\* beyond the range of the clamp
MuOutputs == {-20, 20}
LogvarOutputs == {-11, 0, 11}

\* a clamp that leaves its argument as it is
LogvarUnclamped(v) == v

\* `torch.clamp(logvar, min=-10, max=10)` on one entry
LogvarClamp(v) == Max(-10, Min(10, v))

\* a call forward(x, seq_len, inputs=...): without inputs, with the inputs
\* train() passes (x[:, :-1, :]) or with inputs as long as x
InitForward ==
    /\ fpc = "start"
    /\ \E B \in 1..MaxBatch, L \in 2..MaxPadLen :
        /\ x_shape = <<B, L, InSize>>
        /\ lengths_shape = <<B>>
        /\ inputs_shape \in {None, <<B, L - 1, InSize>>, <<B, L, InSize>>}
    /\ num_gmm_modes \in 1..MaxModes
    /\ latent_size \in 1..MaxLatent
    /\ mu_shape = <<>>
    /\ logvar_shape = <<>>
    /\ z_shape = <<>>
    /\ decoder_output_shape = <<>>
    /\ gmm_outputs_shape = <<>>
    /\ encoded_mu = {}
    /\ encoded_logvar = {}
    /\ mu_values = {}
    /\ logvar_values = {}
    /\ reparam_logvar = {}
    /\ IdleSample
    /\ IdleData
    /\ IdleLoss
    /\ IdleKL
    /\ IdleMix
    /\ IdleTrain
    /\ IdleBuild
    /\ IdleAug
    /\ IdleRun

\* encode(): hn is (B, 2 * enc_hidden_size); the two Linear layers map it to
\* (B, latent_size); torch.clamp keeps the shape and acts on every entry of
\* logvar
Encode ==
    /\ fpc = "start"
    /\ LET hn == <<x_shape[1], 2 * EncHidden>>
       IN /\ mu_shape' = <<hn[1], latent_size>>
          /\ logvar_shape' = <<hn[1], latent_size>>
          /\ \E ms \in SUBSET MuOutputs, lvs \in SUBSET LogvarOutputs :
                /\ ms # {} /\ Cardinality(ms) <= hn[1] * latent_size
                /\ lvs # {} /\ Cardinality(lvs) <= hn[1] * latent_size
                /\ encoded_mu' = ms
                /\ encoded_logvar' = lvs
                /\ mu_values' = ms
                /\ logvar_values' = {LogvarClamp(v) : v \in lvs}
    /\ fpc' = "encoded"
    /\ UNCHANGED <<x_shape, lengths_shape, inputs_shape, num_gmm_modes, latent_size,
                   z_shape, decoder_output_shape, gmm_outputs_shape, reparam_logvar>>
    /\ UNCHANGED notForward

\* reparameterize(): z = mu + epsilon * sigma, elementwise
Reparameterize ==
    /\ fpc = "encoded"
    /\ z_shape' = mu_shape
    /\ reparam_logvar' = logvar_values
    /\ fpc' = "sampled"
    /\ UNCHANGED <<x_shape, lengths_shape, inputs_shape, num_gmm_modes, latent_size,
                   mu_shape, logvar_shape, decoder_output_shape, gmm_outputs_shape,
                   encoded_mu, encoded_logvar, mu_values, logvar_values>>
    /\ UNCHANGED notForward

\* decode(): builds zero inputs when none are given, concatenates z to every
\* step and runs the decoder LSTM (batch_first)
Decode ==
    /\ fpc = "sampled"
    /\ LET inputs == IF inputs_shape = None
                     THEN <<z_shape[1], DefaultInputLen(x_shape, lengths_shape), InSize>>
                     ELSE inputs_shape
           batch_size == inputs[1]
           seq_length == inputs[2]
           cat_inputs == <<batch_size, seq_length, inputs[3] + z_shape[2]>>
       IN decoder_output_shape' = <<cat_inputs[1], cat_inputs[2], DecHidden>>
    /\ fpc' = "decoded"
    /\ UNCHANGED <<x_shape, lengths_shape, inputs_shape, num_gmm_modes, latent_size,
                   mu_shape, logvar_shape, z_shape, gmm_outputs_shape,
                   encoded_mu, encoded_logvar, mu_values, logvar_values, reparam_logvar>>
    /\ UNCHANGED notForward

\* decoder_to_gmm_fc on the last axis; forward returns gmm_outputs, mu, logvar
MixtureHead ==
    /\ fpc = "decoded"
    /\ gmm_outputs_shape' = <<decoder_output_shape[1], decoder_output_shape[2],
                              GmmWidth(num_gmm_modes)>>
    /\ fpc' = "done"
    /\ UNCHANGED <<x_shape, lengths_shape, inputs_shape, num_gmm_modes, latent_size,
                   mu_shape, logvar_shape, z_shape, decoder_output_shape,
                   encoded_mu, encoded_logvar, mu_values, logvar_values, reparam_logvar>>
    /\ UNCHANGED notForward

NextForward ==
    \/ Encode
    \/ Reparameterize
    \/ Decode
    \/ MixtureHead

SpecForward == InitForward /\ [][NextForward]_vars

\* C3: forward returns a mixture tensor of shape (B, L, 8M+3) and mu, logvar
\* of shape (B, Z), with inputs as long as x and with no inputs supplied.
C3_ForwardShapes ==
    (fpc = "done" /\ inputs_shape \in {None, x_shape}) =>
        /\ gmm_outputs_shape = <<x_shape[1], x_shape[2], (8 * num_gmm_modes) + 3>>
        /\ mu_shape = <<x_shape[1], latent_size>>
        /\ logvar_shape = <<x_shape[1], latent_size>>

\* C14: the logvar passed to reparameterize and the logvar forward returns lie
\* within [-10, 10] for every encoder output; mu is returned unclamped.
C14_LogvarClamped ==
    /\ (fpc \in {"sampled", "decoded", "done"}) =>
            (reparam_logvar # {} /\ \A v \in reparam_logvar : -10 <= v /\ v <= 10)
    /\ (fpc = "done") =>
            /\ logvar_values # {} /\ \A v \in logvar_values : -10 <= v /\ v <= 10
            /\ mu_values = encoded_mu

\* forward has returned for an encoder output with log-variances beyond both
\* ends of the range and a mean beyond it
C14_Witness ==
    /\ fpc = "done"
    /\ {-11, 11} \subseteq encoded_logvar
    /\ 20 \in mu_values
    /\ logvar_values = {-10, 10}

----------------------------------------------------------------------------
(* DoodleGenRNN.sample_sketch *)

\* latent vectors a call may be given (or draw from the prior)
ZVals == {"z1", "z2"}

\* continuous part (dx, dy, dt) of a sampled point
SampleDeltas == {<<0, 0, 0>>, <<1, 2, 1>>}

\* MDN.sample(): one point (dx, dy, dt, p1, p2, p3), pen state one-hot
MDNSample == {<<d[1], d[2], d[3], p[1], p[2], p[3]>> : d \in SampleDeltas, p \in OneHots}

\* `for _ in range(seq_len)`: another iteration starts
SampleLoopGuardUnbounded(i, n) == TRUE
SampleLoopGuard(i, n) == i < n

\* `if pen_state_idx == 2: break`
IsEOSWrong(idx) == idx = 1
IsEOS(idx) == idx = 2

\* a next input that is the start vector again
CatStartVector(point, z_exp) == <<ZeroRow, z_exp>>

\* `torch.cat([input_t, z_exp], dim=-1)`: the point and z side by side
CatInput(point, z_exp) == <<point, z_exp>>

InitSample ==
    /\ pc = "loop"
    /\ seq_len \in 0..MaxSteps
    /\ z \in ZVals
    /\ input_t = CatInput(ZeroRow, z)
    /\ sketch = <<>>
    /\ it = 0
    /\ result = <<>>
    /\ IdleForward
    /\ IdleData
    /\ IdleLoss
    /\ IdleKL
    /\ IdleMix
    /\ IdleTrain
    /\ IdleBuild
    /\ IdleAug
    /\ IdleRun

\* one pass through the loop body
SampleStep ==
    /\ pc = "loop"
    /\ SampleLoopGuard(it, seq_len)
    /\ \E sampled_point \in MDNSample :
        /\ sketch' = Append(sketch, sampled_point)
        /\ input_t' = CatInput(sampled_point, z)
        /\ pc' = IF IsEOS(ArgMax(Pen(sampled_point))) THEN "cat" ELSE "loop"
    /\ it' = it + 1
    /\ UNCHANGED <<seq_len, z, result>>
    /\ UNCHANGED notSample

\* range(seq_len) is exhausted
SampleLoopEnd ==
    /\ pc = "loop"
    /\ ~SampleLoopGuard(it, seq_len)
    /\ pc' = "cat"
    /\ UNCHANGED <<seq_len, z, input_t, sketch, it, result>>
    /\ UNCHANGED notSample

\* `sketch = torch.cat(sketch, dim=0); return sketch`: torch.cat of an empty list raises
SampleReturn ==
    /\ pc = "cat"
    /\ IF sketch = <<>>
       THEN pc' = "error" /\ result' = result
       ELSE pc' = "done" /\ result' = sketch
    /\ UNCHANGED <<seq_len, z, input_t, sketch, it>>
    /\ UNCHANGED notSample

NextSample ==
    \/ SampleStep
    \/ SampleLoopEnd
    \/ SampleReturn

SpecSample == InitSample /\ [][NextSample]_vars

----------------------------------------------------------------------------
(* Claims about sample_sketch *)

\* C1: for every max_steps >= 1 and every sequence of sampled pen states,
\* sample_sketch terminates (the loop counter never passes max_steps, a step
\* is always possible until the call has returned) and returns between 1 and
\* max_steps rows.
C1_SampleBounded ==
    (seq_len >= 1) =>
        /\ it <= seq_len
        /\ Len(sketch) = it
        /\ pc # "error"
        /\ (pc # "done") => ENABLED NextSample
        /\ (pc = "done") => (Len(result) >= 1 /\ Len(result) <= seq_len)

\* a run that never sampled end-of-sequence has returned max_steps rows
C1_Witness ==
    /\ pc = "done"
    /\ seq_len >= 2
    /\ Len(result) = seq_len
    /\ \A i \in 1..Len(result) : ArgMax(Pen(result[i])) # 2

\* C2: no row but the last has end-of-sequence as its argmax pen state, and a
\* result shorter than max_steps ends with an end-of-sequence row.
C2_StopsAtFirstEOS ==
    /\ \A i \in 1..(Len(sketch) - 1) : ArgMax(Pen(sketch[i])) # 2
    /\ (pc = "done") =>
        /\ \A i \in 1..(Len(result) - 1) : ArgMax(Pen(result[i])) # 2
        /\ (Len(result) < seq_len) => ArgMax(Pen(result[Len(result)])) = 2

\* a run cut short by an end-of-sequence row after at least one other row
C2_Witness ==
    /\ pc = "done"
    /\ Len(result) >= 2
    /\ Len(result) < seq_len
    /\ ArgMax(Pen(result[Len(result)])) = 2

----------------------------------------------------------------------------
(* SequentialStrokeData.__getitem__, random_scale, random_augment *)

\* outcomes of `torch.rand(()) < prob`, prob in percent
CoinOutcomes(prob) ==
    IF prob <= 0 THEN {FALSE} ELSE IF prob >= 100 THEN {TRUE} ELSE BOOLEAN

\* the loop of random_augment from row i on; column 3 of the source is the
\* 4th entry of a row here
RECURSIVE AugmentLoop(_, _, _, _, _, _)
AugmentLoop(data, coins, i, augmented, p_prev, count) ==
    IF i > Len(data) THEN augmented
    ELSE
        LET candidate == data[i]
            p_current == candidate[4]
            cnt == IF p_current = 1 \/ p_prev = 1 THEN 0 ELSE count + 1
            check == p_current = 0 /\ p_prev = 0 /\ cnt > 2
        IN IF check /\ coins[i]
           THEN \* merge candidate into the last kept row
                LET last == augmented[Len(augmented)]
                    merged == [last EXCEPT ![1] = @ + candidate[1],
                                           ![2] = @ + candidate[2],
                                           ![3] = Max(@, candidate[3])]
                IN AugmentLoop(data, coins, i + 1,
                               [augmented EXCEPT ![Len(augmented)] = merged],
                               p_prev, cnt)
           ELSE AugmentLoop(data, coins, i + 1, Append(augmented, candidate),
                            p_current, cnt)

\* random_augment(data, prob): one result per outcome of the coin flips
RandomAugment(data, prob) ==
    {AugmentLoop(data, coins, 2, <<data[1]>>, data[1][4], 0) :
        coins \in [2..Len(data) -> CoinOutcomes(prob)]}

\* values of `(torch.rand(()) - 0.5) * 2 * factor + 1.0`, factor in percent:
\* the whole numbers of [1 - factor, 1 + factor)
ScaleOutcomes(factor) ==
    {s \in (0 - MaxScale)..MaxScale : 100 - factor <= 100 * s /\ 100 * s < 100 + factor}

\* random_scale(data, factor): dx and dy of every row are stretched
RandomScale(data, factor) ==
    {[i \in 1..Len(data) |->
        [data[i] EXCEPT ![1] = @ * x_scale, ![2] = @ * y_scale]] :
        x_scale \in ScaleOutcomes(factor), y_scale \in ScaleOutcomes(factor)}

\* `p1 = (p==1).float(); p2 = (p==0).float(); p3 = torch.zeros_like(p)`
PenFlags(p) == <<IF p = 1 THEN 1 ELSE 0, IF p = 0 THEN 1 ELSE 0, 0>>

\* (N, 4) rows (dx, dy, dt, p) to stroke-6 rows
Stroke6(data) ==
    [i \in 1..Len(data) |->
        <<data[i][1], data[i][2], data[i][3]>> \o PenFlags(data[i][4])]

EosRow == <<0, 0, 0, 0, 0, 1>>

\* the second random_augment of __getitem__, on the stroke-6 rows
FinalAugment(stroke_6, prob) ==
    IF prob > 0 THEN RandomAugment(stroke_6, prob) ELSE {stroke_6}

\* what __getitem__ can return for one stored entry: (stroke_6, length)
GetItemOutcomes(stored, scale_factor, augment_prob) ==
    UNION {
        LET with_tokens == <<ZeroRow>> \o Stroke6(data) \o <<EosRow>>
        IN UNION {
            {[stroke_6 |-> final, length |-> Len(final)] :
                final \in FinalAugment(scaled, augment_prob)}
            : scaled \in (IF scale_factor > 0
                          THEN RandomScale(with_tokens, scale_factor)
                          ELSE {with_tokens})}
        : data \in (IF augment_prob > 0
                    THEN RandomAugment(stored, augment_prob)
                    ELSE {stored})}

----------------------------------------------------------------------------
(* pad_batch, collate_sketches *)

\* a padding that leaves the rows after the sequence all zero
PadOneZeros(seq, maxlen) ==
    LET l == Min(Len(seq), maxlen)
    IN [r \in 1..maxlen |-> IF r <= l THEN seq[r] ELSE ZeroRow]

\* one sample of pad_batch: a row of zeros everywhere, the first l rows of
\* the sequence copied over it, the last column of the rest set to 1
PadOne(seq, maxlen) ==
    LET l == IF Len(seq) > maxlen THEN maxlen ELSE Len(seq)
        zeros == [r \in 1..maxlen |-> [c \in 1..Len(seq[1]) |-> 0]]
        copied == [r \in 1..maxlen |-> IF r <= l THEN seq[r] ELSE zeros[r]]
    IN [r \in 1..maxlen |->
           IF l < maxlen /\ r > l
           THEN [copied[r] EXCEPT ![Len(copied[r])] = 1]
           ELSE copied[r]]

PadBatch(sequences, maxlen) ==
    [i \in 1..Len(sequences) |-> PadOne(sequences[i], maxlen)]

\* list.sort(key=lambda x: x[1], reverse=True): stable, longest first
RECURSIVE SortByLength(_)
SortByLength(items) ==
    IF items = <<>> THEN <<>>
    ELSE
        LET longest == Min1({i \in 1..Len(items) :
                                \A j \in 1..Len(items) : items[j].length <= items[i].length})
        IN <<items[longest]>> \o
           SortByLength(SubSeq(items, 1, longest - 1) \o SubSeq(items, longest + 1, Len(items)))

----------------------------------------------------------------------------
(* One batch through the data loader and into a training step *)

AugmentProbs == {0, 50}
ScaleFactors == {0, 100}

InitData ==
    /\ dpc = "loading"
    /\ max_len \in 2..MaxLen
    /\ random_scale_factor \in ScaleFactors
    /\ augment_stroke_prob \in AugmentProbs
    /\ batch = <<>>
    /\ padded_samples = <<>>
    /\ lengths = <<>>
    /\ decoder_inputs = <<>>
    /\ decoder_target = <<>>
    /\ mask = <<>>
    /\ IdleSample
    /\ IdleForward
    /\ IdleLoss
    /\ IdleKL
    /\ IdleMix
    /\ IdleTrain
    /\ IdleBuild
    /\ IdleAug
    /\ IdleRun

\* the loader fetches one more sample of the batch: dataset[idx]
GetItem ==
    /\ dpc = "loading"
    /\ Len(batch) < BatchSize
    /\ \E stored \in StoredStrokes(max_len) :
        \E item \in GetItemOutcomes(stored, random_scale_factor, augment_stroke_prob) :
            batch' = Append(batch, item)
    /\ UNCHANGED <<dpc, max_len, random_scale_factor, augment_stroke_prob,
                   padded_samples, lengths, decoder_inputs, decoder_target, mask>>
    /\ UNCHANGED notData

\* collate_sketches(batch, max_len) on a full batch or on the last, shorter one
Collate ==
    /\ dpc = "loading"
    /\ batch # <<>>
    /\ LET sorted == SortByLength(batch)
           data == [i \in 1..Len(sorted) |-> sorted[i].stroke_6]
       IN /\ batch' = sorted
          /\ lengths' = [i \in 1..Len(sorted) |-> sorted[i].length]
          /\ padded_samples' = PadBatch(data, max_len)
    /\ dpc' = "collated"
    /\ UNCHANGED <<max_len, random_scale_factor, augment_stroke_prob,
                   decoder_inputs, decoder_target, mask>>
    /\ UNCHANGED notData

\* `mask = torch.arange(max_seq_len).unsqueeze(0) < seq_lens.unsqueeze(1)`;
\* position t of the source is entry t + 1 here
MaskOf(max_seq_len, seq_lens) ==
    [b \in 1..Len(seq_lens) |-> [t \in 1..max_seq_len |-> (t - 1) < seq_lens[b]]]

\* a target slice that is not shifted: all but the last step
TargetUnshifted(Xbatch) ==
    [b \in 1..Len(Xbatch) |-> SubSeq(Xbatch[b], 1, Len(Xbatch[b]) - 1)]

\* `Xbatch[:, :-1, :]`: all but the last step
AllButLast(Xbatch) ==
    [b \in 1..Len(Xbatch) |-> SubSeq(Xbatch[b], 1, Len(Xbatch[b]) - 1)]

\* `Xbatch[:, 1:, :]`: all but the first step
AllButFirst(Xbatch) ==
    [b \in 1..Len(Xbatch) |-> SubSeq(Xbatch[b], 2, Len(Xbatch[b]))]

\* train() and validate() of models/vae.py up to the mask: the slices, the
\* forward pass (pack_padded_sequence in encode() fails on a length beyond the
\* padded time dimension) and the mask
TrainStep ==
    /\ dpc = "collated"
    /\ LET Xbatch == padded_samples
           seq_lens == lengths
           L == Len(Xbatch[1])
           inputs == AllButLast(Xbatch)
           max_seq_len == Len(inputs[1])
       IN /\ decoder_inputs' = inputs
          /\ decoder_target' = AllButFirst(Xbatch)
          /\ IF \E b \in 1..Len(seq_lens) : seq_lens[b] > L
             THEN dpc' = "error" /\ mask' = mask
             ELSE dpc' = "masked" /\ mask' = MaskOf(max_seq_len, seq_lens)
    /\ UNCHANGED <<max_len, random_scale_factor, augment_stroke_prob, batch,
                   padded_samples, lengths>>
    /\ UNCHANGED notData

NextData ==
    \/ GetItem
    \/ Collate
    \/ TrainStep

SpecData == InitData /\ [][NextData]_vars

----------------------------------------------------------------------------
(* Claims about the dataset, the collation and the mask *)

\* C4: in the vae training and validation steps the mask is true at target
\* position t only if the target row X[t+1] lies within the sample's unpadded
\* sequence (t + 1 < n).  Position t of the source is entry t + 1 of mask[b].
C4_MaskExcludesPadding ==
    (dpc = "masked") =>
        \A b \in 1..Len(mask) : \A t \in 0..(Len(mask[b]) - 1) :
            mask[b][t + 1] => (t + 1 < lengths[b])

\* C5: every row but the start token of a sequence returned by __getitem__
\* has exactly one of its three pen-state flags equal to 1.
C5_OnePenFlagPerRow ==
    \A i \in 1..Len(batch) : \A r \in 2..Len(batch[i].stroke_6) :
        Cardinality({c \in 4..6 : batch[i].stroke_6[r][c] = 1}) = 1

\* C6: for every setting of random_scale_factor and augment_stroke_prob the
\* sequence returned by __getitem__ starts with the all-zero start token, ends
\* with the end token (0,0,0,0,0,1) and the returned length is its row count.
C6_StartAndEndTokens ==
    \A i \in 1..Len(batch) :
        LET stroke_6 == batch[i].stroke_6
        IN /\ stroke_6[1] = ZeroRow
           /\ stroke_6[Len(stroke_6)] = <<0, 0, 0, 0, 0, 1>>
           /\ batch[i].length = Len(stroke_6)

\* C7: every length collate_sketches reports is at most the padded time
\* dimension, and the row at index length - 1 of the padded sample is the
\* last row (the end token) of that sample.
C7_LengthsWithinTensor ==
    (dpc \in {"collated", "masked", "error"}) =>
        \A b \in 1..Len(lengths) :
            /\ lengths[b] <= Len(padded_samples[b])
            /\ padded_samples[b][lengths[b]] = batch[b].stroke_6[Len(batch[b].stroke_6)]

\* C8: when no sequence is longer than max_len, pad_batch returns a
\* (batch, max_len, 6) tensor whose rows below a sample's length are the
\* sample's rows and whose rows from the sample's length on are (0,0,0,0,0,1).
C8_PadBatch ==
    (/\ dpc \in {"collated", "masked", "error"}
     /\ \A b \in 1..Len(batch) : Len(batch[b].stroke_6) <= max_len) =>
        /\ Len(padded_samples) = Len(batch)
        /\ \A b \in 1..Len(batch) :
            LET seq == batch[b].stroke_6
            IN /\ Len(padded_samples[b]) = max_len
               /\ \A r \in 1..max_len :
                    /\ Len(padded_samples[b][r]) = 6
                    /\ (r <= Len(seq)) => padded_samples[b][r] = seq[r]
                    /\ (r > Len(seq)) => padded_samples[b][r] = <<0, 0, 0, 0, 0, 1>>

\* a collated batch of two samples, one of which had to be padded
C8_Witness ==
    /\ dpc = "collated"
    /\ Len(batch) = 2
    /\ Len(batch[1].stroke_6) = max_len
    /\ Len(batch[2].stroke_6) < max_len
    /\ padded_samples[2][max_len] = <<0, 0, 0, 0, 0, 1>>
    /\ padded_samples[2][1] = ZeroRow

----------------------------------------------------------------------------
(* reconstruction_loss (models/rnnv1.py) *)

\* a target row whose hot pen flag is at position k (0 = down, 1 = up, 2 = end)
PenRow(k) ==
    <<0, 0, 0, IF k = 0 THEN 1 ELSE 0, IF k = 1 THEN 1 ELSE 0, IF k = 2 THEN 1 ELSE 0>>

RECURSIVE Pow2(_)
Pow2(n) == IF n = 0 THEN 1 ELSE 2 * Pow2(n - 1)

\* position of entry (b, t) in the flattened (B * T) view
FlatIndex(b, t, T) == ((b - 1) * T) + (t - 1)

\* a bool or 0/1 tensor entry as a number
Num(m) == IF m THEN 1 ELSE 0

\* sum of all entries of a (B, T) tensor
RECURSIVE RowSum(_)
RowSum(row) == IF row = <<>> THEN 0 ELSE Head(row) + RowSum(Tail(row))
RECURSIVE TensorSum(_)
TensorSum(tensor) == IF tensor = <<>> THEN 0 ELSE RowSum(Head(tensor)) + TensorSum(Tail(tensor))

\* `target[..., 3].long()`: the value in column 3 of the row
PenStateOf(row) == row[4]

\* F.cross_entropy(..., reduction='none') for one row: the negative
\* log-probability of the class whose index it is given
CrossEntropy(nll, class) == nll[class + 1]

\* number of rows of the mask, the batch size
BatchCount(m) == Len(m)
\* `mask.sum()`
MaskSum(m) == TensorSum([b \in 1..Len(m) |-> [t \in 1..Len(m[b]) |-> Num(m[b][t])]])

\* the arguments of one call: every mask; in each row of the batch the pen
\* states of the targets run through down, up, end from any of the three;
\* the losses per entry are distinct so that a sum tells its terms
InitLoss ==
    /\ lpc = "start"
    /\ \E B \in 1..MaxLossBatch, T \in 1..MaxLossSteps :
        /\ \E first \in [1..B -> 0..2] :
              target = [b \in 1..B |-> [t \in 1..T |-> PenRow((first[b] + t - 1) % 3)]]
        /\ loss_mask \in [1..B -> [1..T -> BOOLEAN]]
        /\ stroke_nll = [b \in 1..B |-> [t \in 1..T |-> Pow2(FlatIndex(b, t, T))]]
        /\ pen_nll = [b \in 1..B |-> [t \in 1..T |->
                        [k \in 1..3 |-> 1000 * (k + (3 * FlatIndex(b, t, T)))]]]
    /\ pen_state = None
    /\ L_s = None
    /\ L_p = None
    /\ rec_loss = None
    /\ IdleSample
    /\ IdleForward
    /\ IdleData
    /\ IdleKL
    /\ IdleMix
    /\ IdleTrain
    /\ IdleBuild
    /\ IdleAug
    /\ IdleRun

\* `dx, dy, dt, pen_state = target[..., 0], ..., target[..., 3].long()`
SplitTarget ==
    /\ lpc = "start"
    /\ pen_state' = [b \in 1..Len(target) |->
                        [t \in 1..Len(target[b]) |-> PenStateOf(target[b][t])]]
    /\ lpc' = "split"
    /\ UNCHANGED <<target, loss_mask, stroke_nll, pen_nll, L_s, L_p, rec_loss>>
    /\ UNCHANGED notLoss

\* `L_s = -(0.5 * log(spatial_prob + 1e-6) + 0.5 * log(temporal_prob + 1e-6)) * mask`
StrokeLoss ==
    /\ lpc = "split"
    /\ L_s' = [b \in 1..Len(target) |->
                  [t \in 1..Len(target[b]) |-> stroke_nll[b][t] * Num(loss_mask[b][t])]]
    /\ lpc' = "stroke"
    /\ UNCHANGED <<target, loss_mask, stroke_nll, pen_nll, pen_state, L_p, rec_loss>>
    /\ UNCHANGED notLoss

\* `pen_loss = F.cross_entropy(...); L_p = pen_loss.view(pen_state.shape) * mask`
PenLoss ==
    /\ lpc = "stroke"
    /\ L_p' = [b \in 1..Len(target) |->
                  [t \in 1..Len(target[b]) |->
                      CrossEntropy(pen_nll[b][t], pen_state[b][t]) * Num(loss_mask[b][t])]]
    /\ lpc' = "pen"
    /\ UNCHANGED <<target, loss_mask, stroke_nll, pen_nll, pen_state, L_s, rec_loss>>
    /\ UNCHANGED notLoss

\* `return (L_s.sum() + L_p.sum()) / mask.sum()`
ReturnLoss ==
    /\ lpc = "pen"
    /\ rec_loss' = [num |-> TensorSum(L_s) + TensorSum(L_p), den |-> MaskSum(loss_mask)]
    /\ lpc' = "done"
    /\ UNCHANGED <<target, loss_mask, stroke_nll, pen_nll, pen_state, L_s, L_p>>
    /\ UNCHANGED notLoss

NextLoss ==
    \/ SplitTarget
    \/ StrokeLoss
    \/ PenLoss
    \/ ReturnLoss

SpecLoss == InitLoss /\ [][NextLoss]_vars

----------------------------------------------------------------------------
(* Claims about reconstruction_loss *)

\* the entries of a (B, T) tensor
Entries(tensor) == UNION {{<<b, t>> : t \in 1..Len(tensor[b])} : b \in 1..Len(tensor)}

\* sum of f over a finite set of entries
SumOver(S, f(_)) ==
    LET Sum[R \in SUBSET S] ==
            IF R = {} THEN 0
            ELSE LET e == CHOOSE x \in R : TRUE IN f(e) + Sum[R \ {e}]
    IN Sum[S]

\* position of the hot flag of a one-hot pen row, 0 = down, 1 = up, 2 = end
HotPosition(row) == CHOOSE k \in 0..2 : row[4 + k] = 1

\* C9: the class index handed to the cross-entropy for a one-hot target row
\* is the position (0 = down, 1 = up, 2 = end) of the row's hot pen flag.
C9_PenClassIsHotPosition ==
    (lpc \in {"split", "stroke", "pen", "done"}) =>
        \A e \in Entries(target) :
            (Pen(target[e[1]][e[2]]) \in OneHots) =>
                pen_state[e[1]][e[2]] = HotPosition(target[e[1]][e[2]])

\* C10: for a mask with at least one true entry reconstruction_loss returns
\* the sum over the masked-in timesteps of stroke loss plus pen loss, divided
\* by the number of true entries of the mask; masked-out timesteps add nothing.
C10_MaskedMean ==
    (lpc = "done" /\ \E e \in Entries(loss_mask) : loss_mask[e[1]][e[2]]) =>
        LET valid == {e \in Entries(loss_mask) : loss_mask[e[1]][e[2]]}
            StrokeAt(e) == stroke_nll[e[1]][e[2]]
            PenAt(e) == CrossEntropy(pen_nll[e[1]][e[2]], pen_state[e[1]][e[2]])
        IN /\ rec_loss.num = SumOver(valid, StrokeAt) + SumOver(valid, PenAt)
           /\ rec_loss.den = Cardinality(valid)

\* a returned loss of a batch of two in which the masked-in entries are
\* neither all entries nor as many as the batch has rows
C10_Witness ==
    /\ lpc = "done"
    /\ Len(loss_mask) = 2
    /\ Len(loss_mask[1]) = 2
    /\ loss_mask[1] = <<TRUE, TRUE>>
    /\ loss_mask[2] = <<TRUE, FALSE>>
    /\ rec_loss.den = 3

\* C11: called with an all-false mask, reconstruction_loss returns 0 or
\* raises; it never returns the undefined value 0/0.
C11_AllFalseMaskGuarded ==
    (lpc \in {"done", "error"} /\ \A e \in Entries(loss_mask) : ~loss_mask[e[1]][e[2]]) =>
        \/ lpc = "error"
        \/ rec_loss.num = 0 /\ rec_loss.den # 0

----------------------------------------------------------------------------
(* kl_divergence_loss and the KL term of train() and validate() *)

\* torch.exp in float32, in thousandths, for the arguments of the model;
\* exp(-110) is below the least positive float32 and comes out as 0.0 exactly
ExpMilli(lv) ==
    CASE lv = -110 -> 0
      [] lv = -1 -> 368
      [] lv = 0 -> 1000
      [] lv = 1 -> 2718

\* the (mu, logvar) an entry of the encoder output can have
KLElems == {<<0, 0>>, <<1, 0>>, <<0, 1>>, <<2, -1>>}

\* `1 + logvar - mu.pow(2) - logvar.exp()` for one entry, in thousandths
KLTerm(m, lv) == 1000 + (1000 * lv) - (1000 * m * m) - ExpMilli(lv)

\* `-0.5 * torch.sum(...)`, in thousandths (every term is even)
KlSumOf(m, lv) ==
    (0 - TensorSum([b \in 1..Len(m) |-> [j \in 1..Len(m[b]) |-> KLTerm(m[b][j], lv[b][j])]])) \div 2

\* anneal factors and tolerances of a call, in thousandths
AnnealFactors == {10, 1000}
Tolerances == {0, 250}

InitKL ==
    /\ kpc = "start"
    /\ kl_module \in {"vae", "rnnv1"}
    /\ \E B \in 1..MaxKLBatch, Z \in 1..MaxKLLatent :
        \E elems \in [1..B -> [1..Z -> KLElems]] :
            /\ mu = [b \in 1..B |-> [j \in 1..Z |-> elems[b][j][1]]]
            /\ logvar = [b \in 1..B |-> [j \in 1..Z |-> elems[b][j][2]]]
    /\ anneal_factor \in AnnealFactors
    /\ tol \in (IF kl_module = "vae" THEN Tolerances ELSE {None})
    /\ kl = None
    /\ kl_returned = None
    /\ kl_div_loss = None
    /\ IdleSample
    /\ IdleForward
    /\ IdleData
    /\ IdleLoss
    /\ IdleMix
    /\ IdleTrain
    /\ IdleBuild
    /\ IdleAug
    /\ IdleRun

\* `kl = -0.5 * torch.sum(1 + logvar - mu.pow(2) - logvar.exp())`
KlSum ==
    /\ kpc = "start"
    /\ kl' = KlSumOf(mu, logvar)
    /\ kpc' = "summed"
    /\ UNCHANGED <<kl_module, mu, logvar, anneal_factor, tol, kl_returned, kl_div_loss>>
    /\ UNCHANGED notKL

\* `kl = torch.clamp(kl, min=tol)`: only in models/vae.py
KlClamp ==
    /\ kpc = "summed"
    /\ kl_module = "vae"
    /\ kl' = Max(kl, tol)
    /\ kpc' = "clamped"
    /\ UNCHANGED <<kl_module, mu, logvar, anneal_factor, tol, kl_returned, kl_div_loss>>
    /\ UNCHANGED notKL

\* `return anneal_factor * kl / mu.size(0)`
KlReturn ==
    /\ \/ kpc = "clamped"
       \/ kpc = "summed" /\ kl_module = "rnnv1"
    /\ kl_returned' = [num |-> anneal_factor * kl, den |-> Len(mu)]
    /\ kpc' = "returned"
    /\ UNCHANGED <<kl_module, mu, logvar, anneal_factor, tol, kl, kl_div_loss>>
    /\ UNCHANGED notKL

\* the caller: `kl_div_loss = kl_divergence_loss(...)` in models/vae.py,
\* `kl_div_loss = kl_divergence_loss(...) / Xbatch.size(0)` in models/rnnv1.py
KlTrainTerm ==
    /\ kpc = "returned"
    /\ kl_div_loss' = IF kl_module = "rnnv1"
                      THEN [num |-> kl_returned.num, den |-> kl_returned.den * Len(mu)]
                      ELSE kl_returned
    /\ kpc' = "added"
    /\ UNCHANGED <<kl_module, mu, logvar, anneal_factor, tol, kl, kl_returned>>
    /\ UNCHANGED notKL

NextKL ==
    \/ KlSum
    \/ KlClamp
    \/ KlReturn
    \/ KlTrainTerm

SpecKL == InitKL /\ [][NextKL]_vars

----------------------------------------------------------------------------
(* Claims about the KL term *)

\* the KL divergence summed over latent dimensions and samples, in thousandths
KLTotal ==
    LET TermAt(e) == KLTerm(mu[e[1]][e[2]], logvar[e[1]][e[2]])
    IN (0 - SumOver(Entries(mu), TermAt)) \div 2

\* C12: in the rnnv1 train and validate steps the KL term added to the loss
\* of a batch of size B is anneal_factor * (KL summed over latent dimensions
\* and samples) / B: the sum is divided by the batch size exactly once.
C12_KLDividedOnce ==
    (kpc = "added" /\ kl_module = "rnnv1") =>
        kl_div_loss.num * Len(mu) = anneal_factor * KLTotal * kl_div_loss.den

\* C13: with anneal_factor = 1 the per-sample KL value vae.kl_divergence_loss
\* returns is at least tol, for every (mu, logvar), batch size and tolerance.
C13_KLAtLeastTol ==
    (kpc \in {"returned", "added"} /\ kl_module = "vae" /\ anneal_factor = 1000) =>
        kl_returned.num >= 1000 * tol * kl_returned.den

----------------------------------------------------------------------------
(* get_mixture_coeff (models/rnnv1.py) *)

\* torch.tanh in float32, in thousandths, for the arguments of the model;
\* tanh(10) differs from 1 by less than half a float32 step and comes out as
\* 1.0 exactly
TanhMilli(v) ==
    CASE v = -1 -> -762
      [] v = 0 -> 0
      [] v = 1 -> 762
      [] v = 10 -> 1000

\* greatest entry of a vector
MaxOf(v) == CHOOSE m \in {v[i] : i \in 1..Len(v)} : \A i \in 1..Len(v) : v[i] <= m

\* F.softmax(v, dim=-1): entry i is num[i] / den
Softmax(v) ==
    LET e == [i \in 1..Len(v) |-> ExpMilli(v[i] - MaxOf(v))]
    IN [num |-> e, den |-> RowSum(e)]

\* a start of the k-th block that is one index late
BlockStartLate(k, M) == (k * M) + 1

\* index at which the k-th block of M entries starts: `k*num_mdn_modes`
BlockStart(k, M) == k * M

\* Python's v[a:b] on the last axis
PySlice(v, a, b) == SubSeq(v, Min(a, Len(v)) + 1, Min(b, Len(v)))

\* a block of the raw row: its first entry a, every other entry 0
Block(a, n) == [j \in 1..n |-> IF j = 1 THEN a ELSE 0]

\* the raw values the first entry of a block can have
LogitVals == {0, 1}
MuVals == {-1, 1}
SigmaVals == {-110, 1}
CorrVals == {-1, 10}

InitMix ==
    /\ mpc = "start"
    /\ num_mdn_modes \in 1..MaxMdnModes
    /\ \E pi \in LogitVals, mus \in [1..3 -> MuVals], sigmas \in [1..3 -> SigmaVals],
          corr \in CorrVals, pen \in LogitVals :
        output = Block(pi, num_mdn_modes)
                 \o Block(mus[1], num_mdn_modes) \o Block(mus[2], num_mdn_modes)
                 \o Block(mus[3], num_mdn_modes)
                 \o Block(sigmas[1], num_mdn_modes) \o Block(sigmas[2], num_mdn_modes)
                 \o Block(sigmas[3], num_mdn_modes)
                 \o Block(corr, num_mdn_modes) \o Block(pen, 3)
    /\ split = None
    /\ coeff = None
    /\ IdleSample
    /\ IdleForward
    /\ IdleData
    /\ IdleLoss
    /\ IdleKL
    /\ IdleTrain
    /\ IdleBuild
    /\ IdleAug
    /\ IdleRun

\* `z_pi = output[..., :num_mdn_modes]` to `z_pen_logits = output[..., 8*M:8*M+3]`
SplitOutput ==
    /\ mpc = "start"
    /\ LET M == num_mdn_modes
           S(k) == PySlice(output, BlockStart(k, M), BlockStart(k + 1, M))
       IN split' = [z_pi |-> S(0), z_mu_dx |-> S(1), z_mu_dy |-> S(2), z_mu_dt |-> S(3),
                    z_sigma_dx |-> S(4), z_sigma_dy |-> S(5), z_sigma_dt |-> S(6),
                    z_corr |-> S(7),
                    z_pen_logits |-> PySlice(output, BlockStart(8, M), BlockStart(8, M) + 3)]
    /\ mpc' = "split"
    /\ UNCHANGED <<num_mdn_modes, output, coeff>>
    /\ UNCHANGED notMix

\* the activations and the return of the ten values
ProcessParameters ==
    /\ mpc = "split"
    /\ LET Exp(v) == [i \in 1..Len(v) |-> ExpMilli(v[i])]
           Tanh(v) == [i \in 1..Len(v) |-> TanhMilli(v[i])]
       IN coeff' = [z_pi |-> Softmax(split.z_pi),
                    z_mu_dx |-> split.z_mu_dx,
                    z_mu_dy |-> split.z_mu_dy,
                    z_mu_dt |-> split.z_mu_dt,
                    z_sigma_dx |-> Exp(split.z_sigma_dx),
                    z_sigma_dy |-> Exp(split.z_sigma_dy),
                    z_sigma_dt |-> Exp(split.z_sigma_dt),
                    z_corr |-> Tanh(split.z_corr),
                    z_pen |-> Softmax(split.z_pen_logits),
                    z_pen_logits |-> split.z_pen_logits]
    /\ mpc' = "returned"
    /\ UNCHANGED <<num_mdn_modes, output, split>>
    /\ UNCHANGED notMix

NextMix ==
    \/ SplitOutput
    \/ ProcessParameters

SpecMix == InitMix /\ [][NextMix]_vars

----------------------------------------------------------------------------
(* Claims about get_mixture_coeff *)

C16_ActivationRanges ==
    (mpc = "returned") =>
        /\ RowSum(coeff.z_pi.num) = coeff.z_pi.den /\ coeff.z_pi.den > 0
        /\ RowSum(coeff.z_pen.num) = coeff.z_pen.den /\ coeff.z_pen.den > 0
        /\ \A s \in {coeff.z_sigma_dx, coeff.z_sigma_dy, coeff.z_sigma_dt} :
              \A i \in 1..Len(s) : s[i] > 0
        /\ \A i \in 1..Len(coeff.z_corr) : -1000 < coeff.z_corr[i] /\ coeff.z_corr[i] < 1000
        /\ coeff.z_mu_dx = split.z_mu_dx
        /\ coeff.z_mu_dy = split.z_mu_dy
        /\ coeff.z_mu_dt = split.z_mu_dt
        /\ coeff.z_pen_logits = split.z_pen_logits

----------------------------------------------------------------------------
(* compute_anneal_factor and the train/val loop of train_rnn *)

\* product of two non-negative floats, both and the result in thousandths:
\* the arithmetic is carried to three decimal places, rounded to nearest
MulMilli(a, b) == ((a * b) + 500) \div 1000

\* `kl_decay_rate ** step`
RECURSIVE PowMilli(_, _)
PowMilli(d, n) == IF n = 0 THEN 1000 ELSE MulMilli(PowMilli(d, n - 1), d)

\* a factor that starts at 1 and decays towards kl_weight_start
AnnealDecaying(step, start, decay, weight) ==
    MulMilli(start + MulMilli(1000 - start, PowMilli(decay, step)), weight)

\* compute_anneal_factor(step, kl_weight_start, kl_decay_rate, kl_weight) of
\* models/vae.py; that of models/rnnv1.py has no kl_weight and is this with a
\* weight of 1
ComputeAnnealFactor(step, start, decay, weight) ==
    LET anneal == 1000 - MulMilli(1000 - start, PowMilli(decay, step))
    IN MulMilli(anneal, weight)

\* a step counter that grows by one per epoch
OnePerEpoch(step, n) == step + 1

\* `global_step += len(train_loader)`
AdvanceStep(step, n) == step + n

\* configured values, in thousandths
StartWeights == {10, 500}
DecayRates == {500, 900}
KLWeights == {500, 1000}

InitTrain ==
    /\ tpc = "epoch_start"
    /\ tr_module \in {"vae", "rnnv1"}
    /\ num_epochs \in 1..MaxEpochs
    /\ num_batches \in 1..MaxTrainBatches
    /\ kl_weight_start \in StartWeights
    /\ kl_decay_rate \in DecayRates
    /\ kl_weight \in (IF tr_module = "vae" THEN KLWeights ELSE {1000})
    /\ epoch = 0
    /\ global_step = 0
    /\ weighted_anneal_factor = None
    /\ train_batch = 0
    /\ anneal_log = <<>>
    /\ IdleSample
    /\ IdleForward
    /\ IdleData
    /\ IdleLoss
    /\ IdleKL
    /\ IdleMix
    /\ IdleBuild
    /\ IdleAug
    /\ IdleRun

\* `for epoch in range(num_epochs): anneal_factor = compute_anneal_factor(...)`
EpochStart ==
    /\ tpc = "epoch_start"
    /\ epoch < num_epochs
    /\ weighted_anneal_factor' =
          ComputeAnnealFactor(global_step, kl_weight_start, kl_decay_rate, kl_weight)
    /\ train_batch' = 0
    /\ tpc' = "training"
    /\ UNCHANGED <<tr_module, num_epochs, num_batches, kl_weight_start, kl_decay_rate,
                   kl_weight, epoch, global_step, anneal_log>>
    /\ UNCHANGED notTrain

\* one batch of train(): kl_divergence_loss is given the anneal_factor argument
TrainBatch ==
    /\ tpc = "training"
    /\ train_batch < num_batches
    /\ anneal_log' = Append(anneal_log, [epoch |-> epoch, step |-> global_step,
                                         factor |-> weighted_anneal_factor])
    /\ train_batch' = train_batch + 1
    /\ UNCHANGED <<tpc, tr_module, num_epochs, num_batches, kl_weight_start, kl_decay_rate,
                   kl_weight, epoch, global_step, weighted_anneal_factor>>
    /\ UNCHANGED notTrain

\* train() has returned: validate(), then `global_step += len(train_loader)`
\* and the next epoch
EpochEnd ==
    /\ tpc = "training"
    /\ train_batch = num_batches
    /\ global_step' = AdvanceStep(global_step, num_batches)
    /\ epoch' = epoch + 1
    /\ tpc' = "epoch_start"
    /\ UNCHANGED <<tr_module, num_epochs, num_batches, kl_weight_start, kl_decay_rate,
                   kl_weight, weighted_anneal_factor, train_batch, anneal_log>>
    /\ UNCHANGED notTrain

\* the loop over the epochs is over
TrainDone ==
    /\ tpc = "epoch_start"
    /\ epoch = num_epochs
    /\ tpc' = "done"
    /\ UNCHANGED <<tr_module, num_epochs, num_batches, kl_weight_start, kl_decay_rate,
                   kl_weight, epoch, global_step, weighted_anneal_factor, train_batch,
                   anneal_log>>
    /\ UNCHANGED notTrain

NextTrain ==
    \/ EpochStart
    \/ TrainBatch
    \/ EpochEnd
    \/ TrainDone

SpecTrain == InitTrain /\ [][NextTrain]_vars

----------------------------------------------------------------------------
(* Claims about the anneal factor *)

\* the anneal factor of the configuration at a step
FactorAt(step) == ComputeAnnealFactor(step, kl_weight_start, kl_decay_rate, kl_weight)

C18_StepPerEpoch ==
    /\ (tpc \in {"epoch_start", "training", "done"}) => global_step = epoch * num_batches
    /\ \A i \in 1..Len(anneal_log) :
          /\ anneal_log[i].step = anneal_log[i].epoch * num_batches
          /\ anneal_log[i].factor = FactorAt(anneal_log[i].epoch * num_batches)
    /\ \A i, j \in 1..Len(anneal_log) :
          /\ (anneal_log[i].epoch = anneal_log[j].epoch) =>
                anneal_log[i].factor = anneal_log[j].factor
          /\ (anneal_log[i].epoch < anneal_log[j].epoch) =>
                anneal_log[i].factor <= anneal_log[j].factor

\* the loop has ended after two or more epochs of two or more batches, the
\* last epoch with a larger factor than the first
C18_Witness ==
    /\ tpc = "done"
    /\ num_epochs >= 2
    /\ num_batches >= 2
    /\ Len(anneal_log) = num_epochs * num_batches
    /\ anneal_log[1].factor < anneal_log[Len(anneal_log)].factor
    /\ anneal_log[Len(anneal_log)].step = (num_epochs - 1) * num_batches

----------------------------------------------------------------------------
(* Claims about the decoder inputs of sample_sketch *)

\* C19: the first decoder input of sample_sketch is the all-zero start vector
\* concatenated with z, every later one is the point sampled and appended in
\* the step before concatenated with the same z, and z never changes.
C19_FeedsBackSampledPoint ==
    /\ [](pc \in {"loop", "cat", "done", "error"} =>
            input_t = <<(IF sketch = <<>> THEN ZeroRow ELSE sketch[Len(sketch)]), z>>)
    /\ [][z' = z]_vars

\* the loop is about to feed the decoder for the third time
C19_Witness ==
    /\ pc = "loop"
    /\ Len(sketch) = 2
    /\ it < seq_len
    /\ input_t[1] = sketch[2]
    /\ input_t[1] # ZeroRow
    /\ input_t[2] = z

----------------------------------------------------------------------------
(* Claims about teacher forcing *)

\* C20: for a padded batch X of time length L the decoder inputs and the
\* targets both have time length L - 1, and at every position t in 0..L-2 the
\* decoder input is X[t] and the target is X[t+1].
C20_TeacherForcingShift ==
    (dpc \in {"masked", "error"}) =>
        /\ Len(decoder_inputs) = Len(padded_samples)
        /\ Len(decoder_target) = Len(padded_samples)
        /\ \A b \in 1..Len(padded_samples) :
            LET L == Len(padded_samples[b])
            IN /\ Len(decoder_inputs[b]) = L - 1
               /\ Len(decoder_target[b]) = L - 1
               /\ \A t \in 0..(L - 2) :
                    /\ decoder_inputs[b][t + 1] = padded_samples[b][t + 1]
                    /\ decoder_target[b][t + 1] = padded_samples[b][t + 2]

\* a training step on a batch of two samples padded to four steps, the first
\* of which fills them
C20_Witness ==
    /\ dpc = "masked"
    /\ Len(padded_samples) = 2
    /\ Len(padded_samples[1]) = 4
    /\ lengths[1] = 4
    /\ Len(decoder_inputs[1]) = 3
    /\ decoder_inputs[1][1] = ZeroRow
    /\ decoder_target[1][3] = EosRow
    /\ \A t \in 1..3 : decoder_inputs[1][t] # decoder_target[1][t]

----------------------------------------------------------------------------
(* download_stroke_data and SequentialStrokeData.__init__: from the samples *)
(* of the remote dataset to the stored strokes and labels                  *)

MaxDrawings == 2

\* class indices a drawing can be labelled with
Classes == {0, 1}

\* np.argsort that leaves the order as it is
ArgSortIdentity(seq_lens) == {[i \in 1..Len(seq_lens) |-> i - 1]}

\* np.argsort(seq_len): 0-based indices that put the lengths in non-decreasing
\* order; the order among equal lengths is the sorting algorithm's
ArgSort(seq_lens) ==
    {ix \in [1..Len(seq_lens) -> 0..(Len(seq_lens) - 1)] :
        /\ \A i, j \in 1..Len(seq_lens) : (i # j) => ix[i] # ix[j]
        /\ \A i \in 1..(Len(seq_lens) - 1) :
            seq_lens[ix[i] + 1] <= seq_lens[ix[i + 1] + 1]}

\* `torch.tensor(labels, dtype=torch.long)[self.sort_idx]`
LabelsAt(all_labels, ix) ==
    [i \in 1..Len(ix) |-> all_labels[ix[i] + 1]]

InitBuild ==
    /\ bpc = "download"
    /\ drawing_sizes = <<>>
    /\ strokes = <<>>
    /\ labels = <<>>
    /\ ds_max_len = 0
    /\ stroke_i = 0
    /\ raw_data = <<>>
    /\ raw_seq_len = <<>>
    /\ kept_from = <<>>
    /\ sort_idx = <<>>
    /\ ds_strokes = <<>>
    /\ ds_labels = <<>>
    /\ IdleSample
    /\ IdleForward
    /\ IdleData
    /\ IdleLoss
    /\ IdleKL
    /\ IdleMix
    /\ IdleTrain
    /\ IdleAug
    /\ IdleRun

\* download_stroke_data assembles one more accepted sample of some class
Download ==
    /\ bpc = "download"
    /\ Len(strokes) < MaxDrawings
    /\ \E sizes \in DrawingSizes, label \in Classes :
        /\ drawing_sizes' = Append(drawing_sizes, sizes)
        /\ strokes' = Append(strokes, DownloadDrawing(DrawingData(sizes)))
        /\ labels' = Append(labels, label)
    /\ UNCHANGED <<bpc, ds_max_len, stroke_i, raw_data, raw_seq_len, kept_from,
                   sort_idx, ds_strokes, ds_labels>>
    /\ UNCHANGED notBuild

\* SequentialStrokeData(strokes, labels, max_len): up to the call of preprocess
Construct ==
    /\ bpc = "download"
    /\ strokes # <<>>
    /\ \E m \in 1..MaxLen : ds_max_len' = m
    /\ bpc' = "preprocess"
    /\ UNCHANGED <<drawing_sizes, strokes, labels, stroke_i, raw_data, raw_seq_len,
                   kept_from, sort_idx, ds_strokes, ds_labels>>
    /\ UNCHANGED notBuild

\* one pass of `for stroke_seq in strokes`
PreprocessDrawing ==
    /\ bpc = "preprocess"
    /\ stroke_i < Len(strokes)
    /\ LET stroke_seq == strokes[stroke_i + 1]
       IN \E keep \in RdpMasks(stroke_seq) :
            LET Ramer_set == SelectRows(stroke_seq, keep, 1)
            IN IF Keeps(Ramer_set, ds_max_len)
               THEN /\ raw_data' = Append(raw_data, ClampRows(Ramer_set, Limit))
                    /\ raw_seq_len' = Append(raw_seq_len, Len(Ramer_set))
                    /\ kept_from' = Append(kept_from, stroke_i + 1)
               ELSE UNCHANGED <<raw_data, raw_seq_len, kept_from>>
    /\ stroke_i' = stroke_i + 1
    /\ UNCHANGED <<bpc, drawing_sizes, strokes, labels, ds_max_len, sort_idx,
                   ds_strokes, ds_labels>>
    /\ UNCHANGED notBuild

\* the end of preprocess: argsort and the reordering, and the assignment of
\* its result to self.strokes, self.sort_idx
PreprocessReturn ==
    /\ bpc = "preprocess"
    /\ stroke_i = Len(strokes)
    /\ \E ix \in ArgSort(raw_seq_len) :
        /\ sort_idx' = ix
        /\ ds_strokes' = [i \in 1..Len(ix) |-> raw_data[ix[i] + 1]]
    /\ bpc' = "sorted"
    /\ UNCHANGED <<drawing_sizes, strokes, labels, ds_max_len, stroke_i, raw_data,
                   raw_seq_len, kept_from, ds_labels>>
    /\ UNCHANGED notBuild

\* `self.labels = torch.tensor(labels, dtype=torch.long)[self.sort_idx]`
IndexLabels ==
    /\ bpc = "sorted"
    /\ ds_labels' = LabelsAt(labels, sort_idx)
    /\ bpc' = "labelled"
    /\ UNCHANGED <<drawing_sizes, strokes, labels, ds_max_len, stroke_i, raw_data,
                   raw_seq_len, kept_from, sort_idx, ds_strokes>>
    /\ UNCHANGED notBuild

\* compute_deltas_and_normalize; torch.cat fails on an empty list
ComputeDeltas ==
    /\ bpc = "labelled"
    /\ IF ds_strokes = <<>>
       THEN bpc' = "error" /\ UNCHANGED ds_strokes
       ELSE /\ bpc' = "normalized"
            /\ ds_strokes' = [i \in 1..Len(ds_strokes) |-> Deltas(ds_strokes[i])]
    /\ UNCHANGED <<drawing_sizes, strokes, labels, ds_max_len, stroke_i, raw_data,
                   raw_seq_len, kept_from, sort_idx, ds_labels>>
    /\ UNCHANGED notBuild

NextBuild ==
    \/ Download
    \/ Construct
    \/ PreprocessDrawing
    \/ PreprocessReturn
    \/ IndexLabels
    \/ ComputeDeltas

SpecBuild == InitBuild /\ [][NextBuild]_vars

----------------------------------------------------------------------------
(* Claims about the construction of the dataset *)

\* C21: after preprocess every kept sequence has at most max_len points, the
\* kept sequences are stored in non-decreasing order of length, and sort_idx
\* is a permutation of 0..k-1, k being the number of kept sequences.
C21_PreprocessSorted ==
    (bpc \in {"sorted", "labelled"}) =>
        LET k == Len(raw_data)
        IN /\ Len(ds_strokes) = k
           /\ \A i \in 1..k : Len(ds_strokes[i]) <= ds_max_len
           /\ \A i \in 1..(k - 1) : Len(ds_strokes[i]) <= Len(ds_strokes[i + 1])
           /\ Len(sort_idx) = k
           /\ {sort_idx[i] : i \in 1..k} = 0..(k - 1)

\* two drawings kept, the longer one supplied first
C21_Witness ==
    /\ bpc = "sorted"
    /\ Len(raw_data) = 2
    /\ Len(raw_data[1]) > Len(raw_data[2])
    /\ Len(strokes) = 2

\* C22: the label stored at dataset index i after construction is the label
\* that was supplied for the drawing stored at index i, also when some
\* drawings were dropped for exceeding max_len.
C22_LabelsFollowDrawings ==
    (bpc \in {"labelled", "normalized", "error"}) =>
        /\ Len(ds_labels) = Len(ds_strokes)
        /\ \A i \in 1..Len(ds_labels) :
            ds_labels[i] = labels[kept_from[sort_idx[i] + 1]]

\* C29: the array assembled for an accepted drawing with s >= 1 strokes of at
\* least one point each has (total stroke points + s - 1) points, exactly
\* s - 1 pen-up points (state 2), each repeating the x, y of the point before
\* it, and pen state 3 on its last point and on no other.
C29_AssembledDrawing ==
    \A d \in 1..Len(strokes) :
        LET rows == strokes[d]
            sizes == drawing_sizes[d]
            s == Len(sizes)
            ups == {i \in 1..Len(rows) : rows[i][4] = 2}
        IN /\ Len(rows) = SumSeq(sizes) + s - 1
           /\ Cardinality(ups) = s - 1
           /\ \A i \in ups :
                /\ i > 1
                /\ rows[i][1] = rows[i - 1][1]
                /\ rows[i][2] = rows[i - 1][2]
           /\ \A i \in 1..Len(rows) : (rows[i][4] = 3) <=> (i = Len(rows))

\* a drawing of two strokes has been assembled
C29_Witness ==
    \E d \in 1..Len(strokes) :
        /\ Len(drawing_sizes[d]) = 2
        /\ \E i \in 1..Len(strokes[d]) : strokes[d][i][4] = 2

----------------------------------------------------------------------------
(* random_augment, one row of its loop at a time *)

AugProbs == {0, 50, 100}

\* what __getitem__ hands to random_augment: a stored (N, 4) entry, or the
\* stroke-6 rows between the start and the end token, scaled or not
AugmentInputs ==
    StoredStrokes(MaxLen) \cup
    UNION {UNION {RandomScale(<<ZeroRow>> \o Stroke6(stored) \o <<EosRow>>, factor) :
                     factor \in ScaleFactors \ {0}}
               \cup {<<ZeroRow>> \o Stroke6(stored) \o <<EosRow>>}
           : stored \in StoredStrokes(MaxLen)}

\* a merge that drops the candidate
DropCandidate(last, candidate) == last

\* the merge of `candidate` into augmented[-1]
MergeCandidate(last, candidate) ==
    [last EXCEPT ![1] = @ + candidate[1],
                 ![2] = @ + candidate[2],
                 ![3] = Max(@, candidate[3])]

InitAug ==
    /\ apc = "loop"
    /\ aug_data \in AugmentInputs
    /\ aug_prob \in AugProbs
    /\ aug_i = 1
    /\ prev_stroke = aug_data[1][4]
    /\ aug_count = 0
    /\ aug_rows = <<aug_data[1]>>
    /\ aug_log = <<>>
    /\ aug_result = <<>>
    /\ IdleSample
    /\ IdleForward
    /\ IdleData
    /\ IdleLoss
    /\ IdleKL
    /\ IdleMix
    /\ IdleTrain
    /\ IdleBuild
    /\ IdleRun

\* one pass of `for i in range(1, len(data))`
AugmentRow ==
    /\ apc = "loop"
    /\ aug_i < Len(aug_data)
    /\ LET candidate == aug_data[aug_i + 1]
           p_current == candidate[4]
           p_prev == prev_stroke
           cnt == IF p_current = 1 \/ p_prev = 1 THEN 0 ELSE aug_count + 1
           check == p_current = 0 /\ p_prev = 0 /\ cnt > 2
       IN /\ aug_count' = cnt
          /\ \E coin \in (IF check THEN CoinOutcomes(aug_prob) ELSE {FALSE}) :
                /\ aug_log' = Append(aug_log, [p_current |-> p_current,
                                               p_prev |-> p_prev,
                                               merged |-> coin])
                /\ IF coin
                   THEN /\ aug_rows' = [aug_rows EXCEPT ![Len(aug_rows)] =
                                            MergeCandidate(@, candidate)]
                        /\ UNCHANGED prev_stroke
                   ELSE /\ aug_rows' = Append(aug_rows, candidate)
                        /\ prev_stroke' = candidate[4]
    /\ aug_i' = aug_i + 1
    /\ UNCHANGED <<apc, aug_data, aug_prob, aug_result>>
    /\ UNCHANGED notAug

\* `return torch.tensor(augmented, dtype=torch.float)`
AugmentReturn ==
    /\ apc = "loop"
    /\ aug_i = Len(aug_data)
    /\ aug_result' = aug_rows
    /\ apc' = "returned"
    /\ UNCHANGED <<aug_data, aug_prob, aug_i, prev_stroke, aug_count, aug_rows, aug_log>>
    /\ UNCHANGED notAug

NextAug ==
    \/ AugmentRow
    \/ AugmentReturn

SpecAug == InitAug /\ [][NextAug]_vars

----------------------------------------------------------------------------
(* Claims about random_augment *)

\* sum of column c over the rows
RECURSIVE ColSum(_, _)
ColSum(rows, c) ==
    IF rows = <<>> THEN 0 ELSE Head(rows)[c] + ColSum(Tail(rows), c)

\* C28: random_augment returns between 1 and len(data) rows, the first being
\* the input's first row; the sums of column 0 and of column 1 are those of
\* the input; a row is merged only when it and the row kept before it both
\* have column 3 equal to 0 and it is at least the third such row in
\* succession; with prob = 0 the output equals the input.  Columns 0, 1, 3 of
\* the source are entries 1, 2, 4 of a row; entry j of aug_log is about row
\* j + 1 of the input.
C28_RandomAugment ==
    (apc = "returned") =>
        /\ Len(aug_result) >= 1
        /\ Len(aug_result) <= Len(aug_data)
        /\ aug_result[1] = aug_data[1]
        /\ ColSum(aug_result, 1) = ColSum(aug_data, 1)
        /\ ColSum(aug_result, 2) = ColSum(aug_data, 2)
        /\ \A j \in 1..Len(aug_log) :
            aug_log[j].merged =>
                /\ j >= 3
                /\ \A k \in (j - 2)..j :
                    aug_log[k].p_current = 0 /\ aug_log[k].p_prev = 0
        /\ Len(aug_result) = Len(aug_data) - Cardinality({j \in 1..Len(aug_log) : aug_log[j].merged})
        /\ (aug_prob = 0) => (aug_result = aug_data)

\* a call that merged a row with non-zero deltas
C28_Witness ==
    /\ apc = "returned"
    /\ Len(aug_result) < Len(aug_data)
    /\ \E j \in 1..Len(aug_log) : aug_log[j].merged /\ aug_data[j + 1][1] # 0

----------------------------------------------------------------------------
(* train_rnn of models/vae.py: epochs of train and validate, the checkpoint *)
(* and the distribution analysis with its calls of sample_sketch            *)

MaxRunEpochs == 11
MaxLoaderLen == 2
MaxRunSeqLen == 2

\* points the distribution analysis collects: `max_seq_points`, 5000 in the
\* source
MaxSeqPoints == 4

\* the last two calls of rnn.mdn after one more: `arg` is the output whose
\* coefficients the call stores or reads, `on` the decoder output of the
\* batch or step that makes the call
Called(calls, op, arg, on) ==
    LET all == Append(calls, [op |-> op, arg |-> arg, on |-> on])
    IN IF Len(all) > 2 THEN Tail(all) ELSE all

\* a call of set_mixture_coeff on whatever the MDN holds already
CoeffLeftOver(outputs, held) == held

\* the tensor handed to set_mixture_coeff: the decoder output just computed
CoeffArgument(outputs, held) == outputs

\* a list that is left as it is
MetricsKeep(list, value) == list

\* metrics[...]['total_loss'].append(value)
MetricsAppend(list, value) == Append(list, value)

ClipsAlways(clip) == TRUE

\* `if grad_clip is not None`
ClipsGrad(clip) == clip # None

SavesEveryTenth(e) == e % 10 = 0

\* `if epoch % 5 == 0`
SavesCheckpoint(e) == e % 5 = 0

\* `if epoch % 10 == 0`
RunsAnalysis(e) == e % 10 = 0

\* `if sample_count < 3`
Animates(count) == count < 3

Uncut(n, limit) == n

\* length of `np.concatenate(gen_x)[:max_seq_points]`, n being the length of
\* the concatenation
Cut(n, limit) == Min(n, limit)

InitRun ==
    /\ rpc = "epoch"
    /\ run_epochs \in 1..MaxRunEpochs
    /\ n_train \in 1..MaxLoaderLen
    /\ n_val \in 1..MaxLoaderLen
    /\ grad_clip \in {None, <<1>>}
    /\ run_max_seq_len \in 1..MaxRunSeqLen
    /\ run_epoch = 0
    /\ batch_idx = 0
    /\ decoder_out = None
    /\ mdn_coeff = None
    /\ mdn_calls = <<>>
    /\ grads = "none"
    /\ update_log = <<>>
    /\ optim_steps = 0
    /\ sched_steps = 0
    /\ metrics_train = <<>>
    /\ metrics_val = <<>>
    /\ checkpoints = <<>>
    /\ analysed = <<>>
    /\ seq_pt_count = 0
    /\ sample_count = 0
    /\ animated = 0
    /\ gen_sketch = <<>>
    /\ gen_x = <<0, 0, 0>>
    /\ gen_done = FALSE
    /\ IdleSample
    /\ IdleForward
    /\ IdleData
    /\ IdleLoss
    /\ IdleKL
    /\ IdleMix
    /\ IdleTrain
    /\ IdleBuild
    /\ IdleAug

runConfig == <<run_epochs, n_train, n_val, grad_clip, run_max_seq_len>>
runMdn == <<decoder_out, mdn_coeff, mdn_calls>>
runUpdate == <<grads, update_log, optim_steps, sched_steps>>
runMetrics == <<metrics_train, metrics_val, checkpoints, analysed>>
runAnalysis == <<seq_pt_count, sample_count, animated, gen_sketch, gen_x, gen_done>>

\* `for epoch in range(num_epochs)`: the next epoch enters train()
EpochBegin ==
    /\ rpc = "epoch"
    /\ run_epoch < run_epochs
    /\ batch_idx' = 0
    /\ rpc' = "train_forward"
    /\ UNCHANGED <<runConfig, run_epoch, runMdn, runUpdate, runMetrics, runAnalysis>>
    /\ UNCHANGED notRun

\* train(): the next batch and its forward pass
TrainForward ==
    /\ rpc = "train_forward"
    /\ decoder_out' = <<"train", run_epoch, batch_idx, 0>>
    /\ update_log' = <<>>
    /\ rpc' = "train_coeff"
    /\ UNCHANGED <<runConfig, run_epoch, batch_idx, mdn_coeff, mdn_calls, grads,
                   optim_steps, sched_steps, runMetrics, runAnalysis>>
    /\ UNCHANGED notRun

\* `rnn.mdn.set_mixture_coeff(gmm_outputs)`
TrainSetCoeff ==
    /\ rpc = "train_coeff"
    /\ mdn_coeff' = CoeffArgument(decoder_out, mdn_coeff)
    /\ mdn_calls' = Called(mdn_calls, "set_mixture_coeff", mdn_coeff', decoder_out)
    /\ rpc' = "train_loss"
    /\ UNCHANGED <<runConfig, run_epoch, batch_idx, decoder_out, runUpdate,
                   runMetrics, runAnalysis>>
    /\ UNCHANGED notRun

\* `rec_loss = rnn.mdn.reconstruction_loss(decoder_target, mask, reg_covar)`
\* and the KL term: the loss is computed from the coefficients the MDN holds
TrainRecLoss ==
    /\ rpc = "train_loss"
    /\ mdn_calls' = Called(mdn_calls, "reconstruction_loss", mdn_coeff, decoder_out)
    /\ rpc' = "zero_grad"
    /\ UNCHANGED <<runConfig, run_epoch, batch_idx, decoder_out, mdn_coeff,
                   runUpdate, runMetrics, runAnalysis>>
    /\ UNCHANGED notRun

\* `optim.zero_grad()`
ZeroGrad ==
    /\ rpc = "zero_grad"
    /\ grads' = "zeroed"
    /\ update_log' = Append(update_log, "zero_grad")
    /\ rpc' = "backward"
    /\ UNCHANGED <<runConfig, run_epoch, batch_idx, runMdn, optim_steps, sched_steps,
                   runMetrics, runAnalysis>>
    /\ UNCHANGED notRun

\* `loss.backward()`
Backward ==
    /\ rpc = "backward"
    /\ grads' = "fresh"
    /\ update_log' = Append(update_log, "backward")
    /\ rpc' = "clip"
    /\ UNCHANGED <<runConfig, run_epoch, batch_idx, runMdn, optim_steps, sched_steps,
                   runMetrics, runAnalysis>>
    /\ UNCHANGED notRun

\* `if grad_clip is not None: nn.utils.clip_grad_norm_(...)`
ClipGrad ==
    /\ rpc = "clip"
    /\ IF ClipsGrad(grad_clip)
       THEN /\ grads' = "clipped"
            /\ update_log' = Append(update_log, "clip_grad_norm_")
       ELSE UNCHANGED <<grads, update_log>>
    /\ rpc' = "optim_step"
    /\ UNCHANGED <<runConfig, run_epoch, batch_idx, runMdn, optim_steps, sched_steps,
                   runMetrics, runAnalysis>>
    /\ UNCHANGED notRun

\* `optim.step()`
OptimStep ==
    /\ rpc = "optim_step"
    /\ optim_steps' = optim_steps + 1
    /\ update_log' = Append(update_log, "optim.step")
    /\ rpc' = "sched_step"
    /\ UNCHANGED <<runConfig, run_epoch, batch_idx, runMdn, grads, sched_steps,
                   runMetrics, runAnalysis>>
    /\ UNCHANGED notRun

\* `scheduler.step()`, the running sums, and on to the next batch if any
SchedStep ==
    /\ rpc = "sched_step"
    /\ sched_steps' = sched_steps + 1
    /\ update_log' = Append(update_log, "scheduler.step")
    /\ batch_idx' = batch_idx + 1
    /\ rpc' = IF batch_idx + 1 < n_train THEN "train_forward" ELSE "train_log"
    /\ UNCHANGED <<runConfig, run_epoch, runMdn, grads, optim_steps,
                   runMetrics, runAnalysis>>
    /\ UNCHANGED notRun

\* the end of train(): the epoch's means are appended to metrics['train']
TrainLog ==
    /\ rpc = "train_log"
    /\ metrics_train' = MetricsAppend(metrics_train, run_epoch)
    /\ batch_idx' = 0
    /\ rpc' = "val_forward"
    /\ UNCHANGED <<runConfig, run_epoch, runMdn, runUpdate, metrics_val, checkpoints,
                   analysed, runAnalysis>>
    /\ UNCHANGED notRun

\* validate(): the next batch and its forward pass
ValForward ==
    /\ rpc = "val_forward"
    /\ decoder_out' = <<"val", run_epoch, batch_idx, 0>>
    /\ rpc' = "val_coeff"
    /\ UNCHANGED <<runConfig, run_epoch, batch_idx, mdn_coeff, mdn_calls, runUpdate,
                   runMetrics, runAnalysis>>
    /\ UNCHANGED notRun

\* `rnn.mdn.set_mixture_coeff(outputs)`
ValSetCoeff ==
    /\ rpc = "val_coeff"
    /\ mdn_coeff' = CoeffArgument(decoder_out, mdn_coeff)
    /\ mdn_calls' = Called(mdn_calls, "set_mixture_coeff", mdn_coeff', decoder_out)
    /\ rpc' = "val_loss"
    /\ UNCHANGED <<runConfig, run_epoch, batch_idx, decoder_out, runUpdate,
                   runMetrics, runAnalysis>>
    /\ UNCHANGED notRun

\* `rec_loss = rnn.mdn.reconstruction_loss(decoder_target, mask)`, the KL
\* term, the running sums, and on to the next batch if any
ValRecLoss ==
    /\ rpc = "val_loss"
    /\ mdn_calls' = Called(mdn_calls, "reconstruction_loss", mdn_coeff, decoder_out)
    /\ batch_idx' = batch_idx + 1
    /\ rpc' = IF batch_idx + 1 < n_val THEN "val_forward" ELSE "val_log"
    /\ UNCHANGED <<runConfig, run_epoch, decoder_out, mdn_coeff, runUpdate,
                   runMetrics, runAnalysis>>
    /\ UNCHANGED notRun

\* the end of validate(): the epoch's means are appended to metrics['val']
ValLog ==
    /\ rpc = "val_log"
    /\ metrics_val' = MetricsAppend(metrics_val, run_epoch)
    /\ rpc' = "checkpoint"
    /\ UNCHANGED <<runConfig, run_epoch, batch_idx, runMdn, runUpdate, metrics_train,
                   checkpoints, analysed, runAnalysis>>
    /\ UNCHANGED notRun

\* `if epoch % 5 == 0: torch.save({...})`; metrics[...]['total_loss'][epoch]
\* raises IndexError on a list that is too short
Checkpoint ==
    /\ rpc = "checkpoint"
    /\ IF SavesCheckpoint(run_epoch)
       THEN IF Len(metrics_train) > run_epoch /\ Len(metrics_val) > run_epoch
            THEN /\ checkpoints' = Append(checkpoints,
                        [epoch |-> run_epoch + 1,
                         train_loss |-> metrics_train[run_epoch + 1],
                         val_loss |-> metrics_val[run_epoch + 1]])
                 /\ rpc' = "analysis"
            ELSE /\ rpc' = "error"
                 /\ UNCHANGED checkpoints
       ELSE /\ rpc' = "analysis"
            /\ UNCHANGED checkpoints
    /\ UNCHANGED <<runConfig, run_epoch, batch_idx, runMdn, runUpdate, metrics_train,
                   metrics_val, analysed, runAnalysis>>
    /\ UNCHANGED notRun

\* `if epoch % 10 == 0`: the counters and lists of the analysis are set up
AnalysisBegin ==
    /\ rpc = "analysis"
    /\ IF RunsAnalysis(run_epoch)
       THEN /\ analysed' = Append(analysed, run_epoch)
            /\ seq_pt_count' = 0
            /\ sample_count' = 0
            /\ animated' = 0
            /\ gen_x' = <<0, 0, 0>>
            /\ gen_done' = FALSE
            /\ rpc' = "sampling"
       ELSE /\ rpc' = "epoch_end"
            /\ UNCHANGED <<analysed, seq_pt_count, sample_count, animated, gen_x,
                           gen_done>>
    /\ UNCHANGED <<runConfig, run_epoch, batch_idx, runMdn, runUpdate, metrics_train,
                   metrics_val, checkpoints, gen_sketch>>
    /\ UNCHANGED notRun

\* `while seq_pt_count < max_seq_points`: sample_sketch is entered
SketchBegin ==
    /\ rpc = "sampling"
    /\ seq_pt_count < MaxSeqPoints
    /\ gen_sketch' = <<>>
    /\ rpc' = "sample_decode"
    /\ UNCHANGED <<runConfig, run_epoch, batch_idx, runMdn, runUpdate, runMetrics,
                   seq_pt_count, sample_count, animated, gen_x, gen_done>>
    /\ UNCHANGED notRun

\* sample_sketch: one step of the decoder and the mixture head
SampleDecode ==
    /\ rpc = "sample_decode"
    /\ decoder_out' = <<"sample", run_epoch, sample_count, Len(gen_sketch)>>
    /\ rpc' = "sample_coeff"
    /\ UNCHANGED <<runConfig, run_epoch, batch_idx, mdn_coeff, mdn_calls, runUpdate,
                   runMetrics, runAnalysis>>
    /\ UNCHANGED notRun

\* `self.mdn.set_mixture_coeff(gmm_params)`
SampleSetCoeff ==
    /\ rpc = "sample_coeff"
    /\ mdn_coeff' = CoeffArgument(decoder_out, mdn_coeff)
    /\ mdn_calls' = Called(mdn_calls, "set_mixture_coeff", mdn_coeff', decoder_out)
    /\ rpc' = "sample_draw"
    /\ UNCHANGED <<runConfig, run_epoch, batch_idx, decoder_out, runUpdate,
                   runMetrics, runAnalysis>>
    /\ UNCHANGED notRun

\* `sampled_point = self.mdn.sample()`, the append and the test for the
\* end-of-sequence pen state
SampleDraw ==
    /\ rpc = "sample_draw"
    /\ mdn_calls' = Called(mdn_calls, "sample", mdn_coeff, decoder_out)
    /\ \E eos \in BOOLEAN :
        /\ gen_sketch' = Append(gen_sketch, eos)
        /\ rpc' = IF eos \/ Len(gen_sketch) + 1 >= run_max_seq_len
                  THEN "sketch_return" ELSE "sample_decode"
    /\ UNCHANGED <<runConfig, run_epoch, batch_idx, decoder_out, mdn_coeff, runUpdate,
                   runMetrics, seq_pt_count, sample_count, animated, gen_x, gen_done>>
    /\ UNCHANGED notRun

\* sample_sketch returns: the animation of the first sketches, the counters,
\* and the columns appended to gen_x, gen_y, gen_t
SketchReturn ==
    /\ rpc = "sketch_return"
    /\ animated' = IF Animates(sample_count) THEN animated + 1 ELSE animated
    /\ seq_pt_count' = seq_pt_count + Len(gen_sketch)
    /\ sample_count' = sample_count + 1
    /\ gen_x' = [i \in 1..3 |-> gen_x[i] + Len(gen_sketch)]
    /\ rpc' = "sampling"
    /\ UNCHANGED <<runConfig, run_epoch, batch_idx, runMdn, runUpdate, runMetrics,
                   gen_sketch, gen_done>>
    /\ UNCHANGED notRun

\* the loop is left: `np.concatenate(gen_x)[:max_seq_points]`, and the same
\* for gen_y, gen_t
AnalysisCut ==
    /\ rpc = "sampling"
    /\ seq_pt_count >= MaxSeqPoints
    /\ gen_x' = [i \in 1..3 |-> Cut(gen_x[i], MaxSeqPoints)]
    /\ gen_done' = TRUE
    /\ rpc' = "epoch_end"
    /\ UNCHANGED <<runConfig, run_epoch, batch_idx, runMdn, runUpdate, runMetrics,
                   seq_pt_count, sample_count, animated, gen_sketch>>
    /\ UNCHANGED notRun

\* the end of the loop body.  The locals of the analysis are not read again
\* before they are set anew, and are left out of the state from here on.
RunEpochEnd ==
    /\ rpc = "epoch_end"
    /\ run_epoch' = run_epoch + 1
    /\ seq_pt_count' = 0
    /\ sample_count' = 0
    /\ animated' = 0
    /\ gen_sketch' = <<>>
    /\ gen_x' = <<0, 0, 0>>
    /\ gen_done' = FALSE
    /\ rpc' = "epoch"
    /\ UNCHANGED <<runConfig, batch_idx, runMdn, runUpdate, runMetrics>>
    /\ UNCHANGED notRun

\* the loop over the epochs is exhausted
RunDone ==
    /\ rpc = "epoch"
    /\ run_epoch = run_epochs
    /\ rpc' = "done"
    /\ UNCHANGED <<runConfig, run_epoch, batch_idx, runMdn, runUpdate, runMetrics,
                   runAnalysis>>
    /\ UNCHANGED notRun

NextRun ==
    \/ EpochBegin
    \/ TrainForward
    \/ TrainSetCoeff
    \/ TrainRecLoss
    \/ ZeroGrad
    \/ Backward
    \/ ClipGrad
    \/ OptimStep
    \/ SchedStep
    \/ TrainLog
    \/ ValForward
    \/ ValSetCoeff
    \/ ValRecLoss
    \/ ValLog
    \/ Checkpoint
    \/ AnalysisBegin
    \/ SketchBegin
    \/ SampleDecode
    \/ SampleSetCoeff
    \/ SampleDraw
    \/ SketchReturn
    \/ AnalysisCut
    \/ RunEpochEnd
    \/ RunDone

SpecRun == InitRun /\ [][NextRun]_vars

----------------------------------------------------------------------------
(* Claims about train_rnn, train and validate of models/vae.py *)

\* C23: across training batches, validation batches and sampling steps every
\* call of mdn.reconstruction_loss and mdn.sample is immediately preceded by
\* a set_mixture_coeff call on the decoder output of that same batch or step,
\* so the coefficients it reads are never those of an earlier one.
C23_FreshCoefficients ==
    (/\ mdn_calls # <<>>
     /\ mdn_calls[Len(mdn_calls)].op \in {"reconstruction_loss", "sample"}) =>
        /\ Len(mdn_calls) = 2
        /\ mdn_calls[1] = [op |-> "set_mixture_coeff", arg |-> mdn_calls[2].on,
                           on |-> mdn_calls[2].on]
        /\ mdn_calls[2].arg = mdn_calls[2].on
        /\ (mdn_calls[2].op = "sample") <=> (mdn_calls[2].on[1] = "sample")

\* a training loss computed in the epoch after one that sampled sketches
C23_Witness ==
    /\ Len(mdn_calls) = 2
    /\ mdn_calls[2].op = "reconstruction_loss"
    /\ decoder_out = <<"train", 1, 0, 0>>
    /\ analysed = <<0>>

\* positions of an epoch after its train and validate calls
AfterValidate ==
    {"checkpoint", "analysis", "sampling", "sample_decode", "sample_coeff",
     "sample_draw", "sketch_return", "epoch_end"}

\* C24: with non-empty loaders, after the train and validate calls of epoch e
\* (0-based) metrics['train']['total_loss'] and metrics['val']['total_loss']
\* hold e + 1 entries each, so the checkpoint's index [epoch] reads the value
\* appended in the current epoch.
C24_MetricsPerEpoch ==
    /\ rpc # "error"
    /\ (rpc \in AfterValidate) =>
        /\ Len(metrics_train) = run_epoch + 1
        /\ Len(metrics_val) = run_epoch + 1
        /\ metrics_train[run_epoch + 1] = run_epoch
        /\ metrics_val[run_epoch + 1] = run_epoch
    /\ \A i \in 1..Len(checkpoints) :
        /\ checkpoints[i].train_loss = checkpoints[i].epoch - 1
        /\ checkpoints[i].val_loss = checkpoints[i].epoch - 1

\* the checkpoint of the sixth epoch has been written
C24_Witness ==
    /\ rpc = "analysis"
    /\ run_epoch = 5
    /\ checkpoints[Len(checkpoints)].epoch = 6

\* the calls of one parameter update, in order
UpdateCalls(clip) ==
    <<"zero_grad", "backward">> \o
    (IF clip # None THEN <<"clip_grad_norm_">> ELSE <<>>) \o
    <<"optim.step", "scheduler.step">>

\* C25: every training batch performs one parameter update in the order
\* zero_grad, backward, gradient clipping (only when grad_clip is not None),
\* optimizer step, scheduler step; after k training batches the optimizer and
\* the scheduler have stepped k times.
C25_UpdateOrder ==
    /\ Len(update_log) <= Len(UpdateCalls(grad_clip))
    /\ update_log = SubSeq(UpdateCalls(grad_clip), 1, Len(update_log))
    /\ (rpc \in {"train_forward", "train_log"}) =>
        /\ sched_steps = (run_epoch * n_train) + batch_idx
        /\ optim_steps = (run_epoch * n_train) + batch_idx
        /\ (sched_steps > 0) => (update_log = UpdateCalls(grad_clip))
    /\ (rpc = "optim_step") =>
        (grads = IF grad_clip # None THEN "clipped" ELSE "fresh")

\* three batches trained without gradient clipping
C25_Witness ==
    /\ rpc = "train_log"
    /\ grad_clip = None
    /\ sched_steps >= 3
    /\ update_log = <<"zero_grad", "backward", "optim.step", "scheduler.step">>

\* epochs whose checkpoint step, analysis step has been passed
EpochsPastCheckpoint ==
    0..(run_epoch - (IF rpc \in (AfterValidate \ {"checkpoint"}) THEN 0 ELSE 1))
EpochsPastAnalysis ==
    0..(run_epoch - (IF rpc \in (AfterValidate \ {"checkpoint", "analysis"}) THEN 0 ELSE 1))

\* C26: a checkpoint is written in epoch e (0-based) iff e mod 5 = 0 and the
\* distribution analysis runs iff e mod 10 = 0; every epoch that runs the
\* analysis also writes a checkpoint, and after a run of N epochs the last
\* checkpoint is that of epoch 5 * floor((N - 1) / 5).
C26_CheckpointAndAnalysisEpochs ==
    LET saved == {checkpoints[i].epoch - 1 : i \in 1..Len(checkpoints)}
        analyses == {analysed[i] : i \in 1..Len(analysed)}
    IN /\ saved = {e \in EpochsPastCheckpoint : e % 5 = 0}
       /\ analyses = {e \in EpochsPastAnalysis : e % 10 = 0}
       /\ analyses \subseteq saved
       /\ (rpc = "done") =>
            /\ checkpoints # <<>>
            /\ checkpoints[Len(checkpoints)].epoch - 1 = 5 * ((run_epochs - 1) \div 5)

\* a run of eleven epochs has ended
C26_Witness ==
    /\ rpc = "done"
    /\ run_epochs = 11
    /\ Len(checkpoints) = 3
    /\ analysed = <<0, 10>>

\* C27: for max_seq_len >= 1 the loop that draws sketches until
\* max_seq_points points are collected makes at most max_seq_points calls of
\* sample_sketch, animates its first 3 sketches at most, and leaves gen_x,
\* gen_y, gen_t with max_seq_points values each.
C27_AnalysisLoop ==
    /\ sample_count <= MaxSeqPoints
    /\ (rpc \in {"sample_decode", "sample_coeff", "sample_draw", "sketch_return"}) =>
        sample_count < MaxSeqPoints
    /\ animated <= 3
    /\ animated = Min(sample_count, 3)
    /\ sample_count <= seq_pt_count
    /\ gen_done =>
        /\ rpc = "epoch_end"
        /\ gen_x = <<MaxSeqPoints, MaxSeqPoints, MaxSeqPoints>>

\* the loop has ended after more than three sketches and with more points
\* than are kept
C27_Witness ==
    /\ gen_done
    /\ sample_count > 3
    /\ animated = 3
    /\ seq_pt_count > MaxSeqPoints

====
